---- MODULE Spec2Model ----
(***************************************************************************)
(* Verification model of the parseable ingestion controller                *)
(* (server/src/handlers/http/ingest.rs) and of the counts engine           *)
(* (src/query/mod.rs).                                                     *)
(*                                                                         *)
(* Spec            : the HTTP ingestion handlers, one action per handler.  *)
(* SpecCounts      : CountsRequest::get_bin_density on bounded inputs.     *)
(* SpecQuery, SpecManifests, SpecPartition, SpecConvert, SpecFlatten :     *)
(*                   functions of the query and conversion layers.         *)
(* SpecTasks       : concurrent handler calls on the shared registry.      *)
(* SpecMetrics     : the telemetry sampler (server/src/metrics/mod.rs);    *)
(* SpecMetricsLive : the same under fair scheduling of its task.           *)
(***************************************************************************)
EXTENDS Integers, Sequences, FiniteSets, TLC

VARIABLES
    mode,           \* CONFIG.parseable.mode
    storage,        \* object store: stream name -> ObjectStoreFormat
    STREAM_INFO,    \* in-memory stream registry: stream name -> metadata
    phase,          \* "idle" | "handled"
    req,            \* the request the last handler ran on
    result,         \* Result<HttpResponse, PostError> of that handler
    response,       \* the HTTP response actix builds from the result
    pushes,         \* bodies passed to push_logs by that handler, in order
    events,         \* events handed to Event::process by that handler, in order
    counts_in,      \* input of a counts request (request, manifests, stream config)
    counts_out,     \* what get_bin_density returned for it
    input,          \* arguments of a call of a function of the query or conversion layer
    output,         \* what that call returned
    tasks,          \* handler calls in flight at once: task id -> its position and context
    registry_lock,  \* tasks holding a read guard of the RwLock around STREAM_INFO
    gauges,         \* metrics registry: label of a gauge that was set -> its value
    scheduler       \* the task spawned by init_system_info_metrics_schedular

vars == <<mode, storage, STREAM_INFO, phase, req, result, response, pushes,
          events, counts_in, counts_out, input, output,
          tasks, registry_lock, gauges, scheduler>>

\* the concurrent tasks and the telemetry sampler
Background == <<tasks, registry_lock, gauges, scheduler>>

\* no handler call in flight, and the sampler not spawned
NoScheduler == [alive |-> FALSE, elapsed |-> 0, disks |-> <<>>, runs |-> FALSE]
NoBackground ==
    /\ tasks = <<>>
    /\ registry_lock = {}
    /\ gauges = <<>>
    /\ scheduler = NoScheduler

(***************************************************************************)
(* Bounds of the model                                                     *)
(***************************************************************************)
MaxRows == 2        \* longest JSON array in a request body
MaxRecords == 2     \* most records a source flattener returns

(***************************************************************************)
(* Small helpers                                                           *)
(***************************************************************************)
Max(a, b) == IF a >= b THEN a ELSE b

SeqsUpTo(S, n) == UNION {[1..k -> S] : k \in 0..n}

\* F applied to the value of v, which is computed once
With(v, F(_)) == CHOOSE y \in {F(x) : x \in {v}} : TRUE

RECURSIVE SumSeq(_)
SumSeq(s) == IF s = <<>> THEN 0 ELSE Head(s) + SumSeq(Tail(s))

(***************************************************************************)
(* Configuration, object store and registry                                *)
(***************************************************************************)
Modes == {"All", "Query", "Ingest"}

StreamNames == {"app"}

\* the time-partition field a stream may be configured with
TimeField == "ts"

\* Option<String> time_partition of ObjectStoreFormat
TimePartitions == {"None", TimeField}

Schemas == {{}, {TimeField}}

ObjectStoreFormat == [time_partition : TimePartitions, schema : Schemas]

Partial(D, R) == UNION {[S -> R] : S \in SUBSET D}

\* STREAM_INFO.stream_exists
stream_exists(registry, stream_name) == stream_name \in DOMAIN registry

(***************************************************************************)
(* JSON values and request bodies                                          *)
(***************************************************************************)
\* strings a time field may hold, and what parse::<DateTime<Utc>>() gives
TimeStrings == {"2024-01-01T00:00:00Z", "2024-01-02T00:00:00Z", "not-a-date"}

\* str::parse::<DateTime<Utc>>: Ok(instant) or Err; instants are day numbers
ParseDateTime(s) ==
    CASE s = "2024-01-01T00:00:00Z" -> [ok |-> TRUE, t |-> 1]
      [] s = "2024-01-02T00:00:00Z" -> [ok |-> TRUE, t |-> 2]
      [] OTHER -> [ok |-> FALSE, t |-> 0]

\* Utc::now() as read by push_logs: later than every instant a body carries
NowValues == {3}

\* the JSON value found at the time field of an object (absent = no such key)
TsValues ==
    {[k |-> "absent", s |-> ""], [k |-> "number", s |-> "5"], [k |-> "null", s |-> "null"]}
    \cup {[k |-> "string", s |-> s] : s \in TimeStrings}

\* elements of a JSON array: objects (identified by their time field) or scalars
Objects == {[t |-> "object", ts |-> v] : v \in TsValues}
ScalarElem == [t |-> "scalar", ts |-> [k |-> "absent", s |-> ""]]
Elements == Objects \cup {ScalarElem}

\* serde_json::Value of a body; kind "envelope" is a source-specific payload
JsonValue(kind, items) == [kind |-> kind, items |-> items]

JsonBodies ==
    {JsonValue("invalid", <<>>), JsonValue("scalar", <<>>)}
    \cup {JsonValue("object", <<o>>) : o \in Objects}
    \cup {JsonValue("array", a) : a \in SeqsUpTo(Elements, MaxRows)}

EnvelopeBodies == {JsonValue("envelope", r) : r \in SeqsUpTo(Objects, MaxRecords)}

\* bytes of the serialised forms, body.len()
ElemLen(e) ==
    IF e.t = "scalar" THEN 1
    ELSE CASE e.ts.k = "absent" -> 2
           [] e.ts.k = "number" -> 8
           [] e.ts.k = "null" -> 11
           [] e.ts.s = "not-a-date" -> 19
           [] OTHER -> 29

RECURSIVE ItemsLen(_)
ItemsLen(items) ==
    IF items = <<>> THEN 0
    ELSE ElemLen(Head(items)) + (IF Len(items) > 1 THEN 1 ELSE 0) + ItemsLen(Tail(items))

BodyLen(body) ==
    CASE body.kind = "invalid" -> 1
      [] body.kind = "scalar" -> 1
      [] body.kind = "object" -> ElemLen(body.items[1])
      [] OTHER -> 2 + ItemsLen(body.items)

(***************************************************************************)
(* Errors: PostError and its HTTP mapping                                  *)
(***************************************************************************)
PostErrorKinds ==
    {"StreamNotFound", "SerdeError", "Header", "Event", "Invalid", "CreateStream",
     "CustomError", "NetworkError", "ObjectStorageError"}

CreateStreamErrors == {"StreamNameValidation", "Storage"}

Result(kind, sub, text, arg) == [kind |-> kind, sub |-> sub, text |-> text, arg |-> arg]

OkResult == Result("Ok", "", "", "")
PanicResult == Result("Panic", "", "", "")

StreamNotFound(s) == Result("StreamNotFound", "", "Stream {0} not found", s)
SerdeError == Result("SerdeError", "", "Could not deserialize into JSON object, {0}", "")
HeaderError(sub) == Result("Header", sub, "Header Error: {0}", "")
EventError == Result("Event", "", "Event Error: {0}", "")
Invalid(text, arg) == Result("Invalid", "", text, arg)
CreateStreamError(sub) == Result("CreateStream", sub, "{0}", "")
ObjectStorageError == Result("ObjectStorageError", "", "ObjectStorageError: {0}", "")

PostErrors ==
    {StreamNotFound(s) : s \in StreamNames}
    \cup {SerdeError, EventError, ObjectStorageError,
          HeaderError("MissingStreamName"), HeaderError("InvalidValue"),
          Invalid("Stream {} not found. Has it been created?", "app"),
          Result("CustomError", "", "Error: {0}", ""),
          Result("NetworkError", "", "Error: {0}", "")}
    \cup {CreateStreamError(sub) : sub \in CreateStreamErrors}

BAD_REQUEST == 400
NOT_FOUND == 404
INTERNAL_SERVER_ERROR == 500
OK == 200

\* status_code without the StreamNameValidation arm: every CreateStream error
\* is an internal error
status_code_no_validation_arm(e) ==
    CASE e.kind = "SerdeError" -> BAD_REQUEST
      [] e.kind = "Header" -> BAD_REQUEST
      [] e.kind = "Event" -> INTERNAL_SERVER_ERROR
      [] e.kind = "Invalid" -> BAD_REQUEST
      [] e.kind = "CreateStream" -> INTERNAL_SERVER_ERROR
      [] e.kind = "StreamNotFound" -> NOT_FOUND
      [] e.kind = "CustomError" -> INTERNAL_SERVER_ERROR
      [] e.kind = "NetworkError" -> INTERNAL_SERVER_ERROR
      [] e.kind = "ObjectStorageError" -> INTERNAL_SERVER_ERROR

\* impl ResponseError for PostError: status_code
status_code(e) ==
    CASE e.kind = "SerdeError" -> BAD_REQUEST
      [] e.kind = "Header" -> BAD_REQUEST
      [] e.kind = "Event" -> INTERNAL_SERVER_ERROR
      [] e.kind = "Invalid" -> BAD_REQUEST
      [] e.kind = "CreateStream" /\ e.sub = "StreamNameValidation" -> BAD_REQUEST
      [] e.kind = "CreateStream" /\ e.sub # "StreamNameValidation" -> INTERNAL_SERVER_ERROR
      [] e.kind = "StreamNotFound" -> NOT_FOUND
      [] e.kind = "CustomError" -> INTERNAL_SERVER_ERROR
      [] e.kind = "NetworkError" -> INTERNAL_SERVER_ERROR
      [] e.kind = "ObjectStorageError" -> INTERNAL_SERVER_ERROR

\* Display of PostError (thiserror): the format string and its argument
to_string(e) == <<e.text, e.sub, e.arg>>

\* impl ResponseError for PostError: error_response
error_response(e) ==
    [status |-> status_code(e), content_type |-> "text/plain", body |-> to_string(e)]

\* HttpResponse::Ok().finish()
OkResponse == [status |-> OK, content_type |-> "", body |-> <<>>]

\* a panicking handler produces no response of its own
NoResponse == [status |-> 0, content_type |-> "", body |-> <<>>]

\* what actix sends for the Result a handler returned
Respond(r) ==
    CASE r.kind = "Ok" -> OkResponse
      [] r.kind = "Panic" -> NoResponse
      [] OTHER -> error_response(r)

(***************************************************************************)
(* Nondeterminism of the collaborators of one handler call                 *)
(***************************************************************************)
\* fail.at = k > 0: the k-th event of the call fails, at the stage fail.kind:
\*   "Header"  collect_labelled_headers rejects the request headers,
\*   "Invalid" into_recordbatch rejects the payload against the schema,
\*   "Event"   Event::process rejects the event it was handed.
\* The headers are the same for every event of a call, so a header failure
\* can only be met by the first event.
MaxAttempts == Max(MaxRows, MaxRecords) + 1

Failures ==
    {[at |-> 0, kind |-> "None"]}
    \cup {[at |-> k, kind |-> f] : k \in 1..MaxAttempts, f \in {"Invalid", "Event"}}
    \cup {[at |-> 1, kind |-> "Header"]}

\* outcomes of logstream::create_stream, list_streams and upsert_stream_info
Externals ==
    [create : {"Ok"} \cup CreateStreamErrors, list_ok : BOOLEAN, upsert_ok : BOOLEAN]

NoExternalFailure == [create |-> "Ok", list_ok |-> TRUE, upsert_ok |-> TRUE]

(***************************************************************************)
(* Conversion of a payload to a record batch                               *)
(***************************************************************************)
Ret(res, evs, k) == [res |-> res, events |-> evs, k |-> k]

\* utils::json::convert_array_to_object: the rows of a body
convert_array_to_object(body_val, time_partition) ==
    CASE body_val.kind = "object" -> [ok |-> TRUE, data |-> body_val.items]
      [] body_val.kind = "array"
         /\ \A i \in 1..Len(body_val.items) : body_val.items[i].t = "object"
           -> [ok |-> TRUE, data |-> body_val.items]
      [] OTHER -> [ok |-> FALSE, data |-> <<>>]

\* utils::header_parsing::collect_labelled_headers on the request headers
collect_labelled_headers(k, fail) == ~(fail.at = k /\ fail.kind = "Header")

\* format::json::Event::into_recordbatch: one row per object of the payload; a
\* payload that is not an object or an array of objects, or that does not fit
\* the schema, is an error; is_first tells that the stream had no schema yet
into_recordbatch(body, schema, k, fail) ==
    IF \/ ~convert_array_to_object(body, "None").ok
       \/ (fail.at = k /\ fail.kind = "Invalid")
    THEN [ok |-> FALSE, rb |-> <<>>, is_first |-> FALSE]
    ELSE [ok |-> TRUE, rb |-> body.items, is_first |-> (schema = {})]

\* into_event_batch: Ok((rb, is_first)) or the error of its two collaborators
into_event_batch(body, schema, k, fail) ==
    IF ~collect_labelled_headers(k, fail)
    THEN [res |-> HeaderError("InvalidValue"), rb |-> <<>>, is_first |-> FALSE]
    ELSE With(into_recordbatch(body, schema, k, fail), LAMBDA batch :
           IF ~batch.ok
           THEN [res |-> Invalid("into_recordbatch", ""), rb |-> <<>>, is_first |-> FALSE]
           ELSE [res |-> OkResult, rb |-> batch.rb, is_first |-> batch.is_first])

\* get_stream_schema: reads the registry, then converts
get_stream_schema(registry, stream_name, body, k, fail) ==
    IF ~stream_exists(registry, stream_name)
    THEN [res |-> StreamNotFound(stream_name), rb |-> <<>>, is_first |-> FALSE]
    ELSE into_event_batch(body, registry[stream_name].schema, k, fail)

\* event::Event as handed to process(); accepted = process() returned Ok
Event(rb, stream, size, is_first, ts, accepted) ==
    [rb |-> rb, stream_name |-> stream, origin_format |-> "json", origin_size |-> size,
     is_first_event |-> is_first, parsed_timestamp |-> ts, accepted |-> accepted]

ProcessOk(k, fail) == ~(fail.at = k /\ fail.kind = "Event")

(***************************************************************************)
(* push_logs                                                               *)
(***************************************************************************)
\* the loop `for value in data` of the time-partitioned branch, from row i on;
\* k events have been attempted so far by the handler call
RECURSIVE push_rows(_, _, _, _, _, _, _, _)
push_rows(registry, stream_name, time_partition, data, i, size, k, fail) ==
    IF i > Len(data) THEN Ret(OkResult, <<>>, k)
    ELSE
      LET value == data[i]
          body_timestamp == value.ts
      IN  IF body_timestamp.k = "absent"
          THEN Ret(Invalid("ingestion failed as field {} is not part of the log",
                           time_partition), <<>>, k)
          ELSE IF body_timestamp.k # "string"
          THEN Ret(PanicResult, <<>>, k)       \* as_str().unwrap() on a non-string
          ELSE IF ~ParseDateTime(body_timestamp.s).ok
          THEN Ret(Invalid("field {} is not in the correct datetime format",
                           body_timestamp.s), <<>>, k)
          ELSE
            With(get_stream_schema(registry, stream_name,
                                   JsonValue("object", <<value>>), k + 1, fail),
                 LAMBDA conv :
              LET parsed_timestamp == ParseDateTime(body_timestamp.s).t
                  ev == Event(conv.rb, stream_name, size, conv.is_first,
                              parsed_timestamp, ProcessOk(k + 1, fail))
              IN  IF conv.res.kind # "Ok" THEN Ret(conv.res, <<>>, k + 1)
                  ELSE IF ~ev.accepted THEN Ret(EventError, <<ev>>, k + 1)
                  ELSE With(push_rows(registry, stream_name, time_partition,
                                      data, i + 1, size, k + 1, fail),
                            LAMBDA rest : Ret(rest.res, <<ev>> \o rest.events, rest.k)))

\* push_logs that ignores the time partition: always one event for the body
push_logs_unpartitioned(registry, store, stream_name, body, now, k, fail) ==
    IF stream_name \notin DOMAIN store THEN Ret(StreamNotFound(stream_name), <<>>, k)
    ELSE IF body.kind = "invalid" THEN Ret(SerdeError, <<>>, k)
    ELSE
      With(get_stream_schema(registry, stream_name, body, k + 1, fail), LAMBDA conv :
        LET ev == Event(conv.rb, stream_name, BodyLen(body), conv.is_first, now,
                        ProcessOk(k + 1, fail))
        IN  IF conv.res.kind # "Ok" THEN Ret(conv.res, <<>>, k + 1)
            ELSE Ret(IF ev.accepted THEN OkResult ELSE EventError, <<ev>>, k + 1))

\* push_logs that hands a rejected event to the processor a second time
\* before giving up
push_logs_retry_once(registry, store, stream_name, body, now, k, fail) ==
    IF stream_name \notin DOMAIN store THEN Ret(StreamNotFound(stream_name), <<>>, k)
    ELSE IF body.kind = "invalid" THEN Ret(SerdeError, <<>>, k)
    ELSE
      LET time_partition == store[stream_name].time_partition
          size == BodyLen(body)
      IN  IF time_partition = "None"
          THEN With(get_stream_schema(registry, stream_name, body, k + 1, fail),
                    LAMBDA conv :
                 LET ev == Event(conv.rb, stream_name, size, conv.is_first, now,
                                 ProcessOk(k + 1, fail))
                 IN  IF conv.res.kind # "Ok" THEN Ret(conv.res, <<>>, k + 1)
                     ELSE IF ev.accepted THEN Ret(OkResult, <<ev>>, k + 1)
                     ELSE Ret(EventError, <<ev, ev>>, k + 1))
          ELSE With(convert_array_to_object(body, time_partition), LAMBDA conv :
                 IF ~conv.ok THEN Ret(Invalid("convert_array_to_object", ""), <<>>, k)
                 ELSE push_rows(registry, stream_name, time_partition, conv.data,
                                1, size, k, fail))

push_logs(registry, store, stream_name, body, now, k, fail) ==
    IF stream_name \notin DOMAIN store THEN Ret(StreamNotFound(stream_name), <<>>, k)
    ELSE IF body.kind = "invalid" THEN Ret(SerdeError, <<>>, k)
    ELSE
      LET time_partition == store[stream_name].time_partition
          size == BodyLen(body)
      IN  IF time_partition = "None"
          THEN With(get_stream_schema(registry, stream_name, body, k + 1, fail),
                    LAMBDA conv :
                 LET ev == Event(conv.rb, stream_name, size, conv.is_first, now,
                                 ProcessOk(k + 1, fail))
                 IN  IF conv.res.kind # "Ok" THEN Ret(conv.res, <<>>, k + 1)
                     ELSE Ret(IF ev.accepted THEN OkResult ELSE EventError, <<ev>>, k + 1))
          ELSE With(convert_array_to_object(body, time_partition), LAMBDA conv :
                 IF ~conv.ok THEN Ret(Invalid("convert_array_to_object", ""), <<>>, k)
                 ELSE push_rows(registry, stream_name, time_partition, conv.data,
                                1, size, k, fail))

(***************************************************************************)
(* Source flatteners and flatten_and_push_logs                             *)
(***************************************************************************)
LOG_SOURCE_KINESIS == "kinesis"
LOG_SOURCE_OTEL == "otel"

\* values of the X-P-Log-Source header; "None" = header absent
LogSources == {"None", LOG_SOURCE_KINESIS, LOG_SOURCE_OTEL, "custom"}

\* kinesis::flatten_kinesis_logs / otel::flatten_otel_logs: the records of the
\* source envelope, one key-value map per logical event
flatten_kinesis_logs(body) == IF body.kind = "envelope" THEN body.items ELSE <<>>
flatten_otel_logs(body) == IF body.kind = "envelope" THEN body.items ELSE <<>>

\* serde_json::to_vec(record): the body of one flattened record
to_vec(record) == JsonValue("object", <<record>>)

Out(res, evs, ps, k) == [res |-> res, events |-> evs, pushes |-> ps, k |-> k]

\* the loop `for record in json.iter_mut()`, from record i on
RECURSIVE push_records(_, _, _, _, _, _, _, _)
push_records(registry, store, stream_name, json, i, now, k, fail) ==
    IF i > Len(json) THEN Out(OkResult, <<>>, <<>>, k)
    ELSE
      LET body == to_vec(json[i])
      IN  With(push_logs(registry, store, stream_name, body, now, k, fail), LAMBDA one :
            IF one.res.kind # "Ok" THEN Out(one.res, one.events, <<body>>, one.k)
            ELSE With(push_records(registry, store, stream_name, json,
                                   i + 1, now, one.k, fail),
                      LAMBDA rest : Out(rest.res, one.events \o rest.events,
                                        <<body>> \o rest.pushes, rest.k)))

\* flatten_and_push_logs whose unknown-source arm only warns: the raw body is
\* never pushed and the empty flattened list is iterated
flatten_and_push_logs_skip_unknown(registry, store, log_source, body, stream_name, now, fail) ==
    IF log_source # "None"
    THEN
      LET json == CASE log_source = LOG_SOURCE_KINESIS -> flatten_kinesis_logs(body)
                    [] log_source = LOG_SOURCE_OTEL -> flatten_otel_logs(body)
                    [] OTHER -> <<>>
      IN  push_records(registry, store, stream_name, json, 1, now, 0, fail)
    ELSE
      With(push_logs(registry, store, stream_name, body, now, 0, fail),
           LAMBDA one : Out(one.res, one.events, <<body>>, one.k))

flatten_and_push_logs(registry, store, log_source, body, stream_name, now, fail) ==
    IF log_source # "None"
    THEN
      LET json == CASE log_source = LOG_SOURCE_KINESIS -> flatten_kinesis_logs(body)
                    [] log_source = LOG_SOURCE_OTEL -> flatten_otel_logs(body)
                    [] OTHER -> <<>>
          unknown == log_source \notin {LOG_SOURCE_KINESIS, LOG_SOURCE_OTEL}
          firstPush == IF unknown THEN <<body>> ELSE <<>>
      IN  With(IF unknown
               THEN push_logs(registry, store, stream_name, body, now, 0, fail)
               ELSE Ret(OkResult, <<>>, 0),
               LAMBDA first :
            IF first.res.kind # "Ok" THEN Out(first.res, first.events, firstPush, first.k)
            ELSE With(push_records(registry, store, stream_name, json, 1, now,
                                   first.k, fail),
                      LAMBDA rest : Out(rest.res, first.events \o rest.events,
                                        firstPush \o rest.pushes, rest.k)))
    ELSE
      With(push_logs(registry, store, stream_name, body, now, 0, fail),
           LAMBDA one : Out(one.res, one.events, <<body>>, one.k))

(***************************************************************************)
(* Stream creation                                                         *)
(***************************************************************************)
Put(f, key, val) == [x \in DOMAIN f \cup {key} |-> IF x = key THEN val ELSE f[x]]

Created(res, registry, store) == [res |-> res, registry |-> registry, store |-> store]

\* logstream::create_stream(name, "", "", Schema::empty()): validates the name,
\* writes the stream to the object store and adds it to the registry
create_stream(registry, store, stream_name, ext) ==
    IF ext.create # "Ok" THEN Created(CreateStreamError(ext.create), registry, store)
    ELSE Created(OkResult,
                 Put(registry, stream_name, [schema |-> {}]),
                 Put(store, stream_name, [time_partition |-> "None", schema |-> {}]))

\* STREAM_INFO.upsert_stream_info(store, stream): loads the stream's metadata
upsert_stream_info(registry, store, stream_name, ext) ==
    IF ~ext.upsert_ok \/ stream_name \notin DOMAIN store
    THEN Created(StreamNotFound(stream_name), registry, store)
    ELSE Created(OkResult,
                 Put(registry, stream_name, [schema |-> store[stream_name].schema]),
                 store)

create_stream_if_not_exists(registry, store, m, stream_name, ext) ==
    IF stream_exists(registry, stream_name) THEN Created(OkResult, registry, store)
    ELSE IF m \in {"All", "Query"} THEN create_stream(registry, store, stream_name, ext)
    ELSE \* Mode::Ingest
      IF ~ext.list_ok THEN Created(ObjectStorageError, registry, store)
      ELSE IF stream_name \notin DOMAIN store     \* !streams.contains(..)
      THEN Created(Invalid("Stream {} not found. Has it been created?", stream_name),
                   registry, store)
      ELSE upsert_stream_info(registry, store, stream_name, ext)

(***************************************************************************)
(* The two handlers                                                        *)
(***************************************************************************)
Handled(res, registry, store, evs, ps) ==
    [res |-> res, registry |-> registry, store |-> store, events |-> evs, pushes |-> ps]

\* ingest that reports a missing X-P-Stream header as a missing stream
ingest_missing_header_not_found(registry, store, m, r, now, fail, ext) ==
    IF r.stream # "None"
    THEN With(create_stream_if_not_exists(registry, store, m, r.stream, ext), LAMBDA c :
           IF c.res.kind # "Ok" THEN Handled(c.res, c.registry, c.store, <<>>, <<>>)
           ELSE With(flatten_and_push_logs(c.registry, c.store, r.log_source,
                                           r.body, r.stream, now, fail),
                     LAMBDA f : Handled(f.res, c.registry, c.store, f.events, f.pushes)))
    ELSE Handled(StreamNotFound(r.stream), registry, store, <<>>, <<>>)

\* POST /api/v1/ingest; r.stream = "None" when the X-P-Stream header is absent
ingest(registry, store, m, r, now, fail, ext) ==
    IF r.stream # "None"
    THEN With(create_stream_if_not_exists(registry, store, m, r.stream, ext), LAMBDA c :
           IF c.res.kind # "Ok" THEN Handled(c.res, c.registry, c.store, <<>>, <<>>)
           ELSE With(flatten_and_push_logs(c.registry, c.store, r.log_source,
                                           r.body, r.stream, now, fail),
                     LAMBDA f : Handled(f.res, c.registry, c.store, f.events, f.pushes)))
    ELSE Handled(HeaderError("MissingStreamName"), registry, store, <<>>, <<>>)

\* POST /api/v1/logstream/{logstream}
post_event(registry, store, r, now, fail) ==
    With(flatten_and_push_logs(registry, store, r.log_source, r.body, r.stream,
                               now, fail),
         LAMBDA f : Handled(f.res, registry, store, f.events, f.pushes))

(***************************************************************************)
(* Requests                                                                *)
(***************************************************************************)
BodiesOf(log_source) ==
    IF log_source \in {LOG_SOURCE_KINESIS, LOG_SOURCE_OTEL} THEN EnvelopeBodies
    ELSE JsonBodies

NoRequest ==
    [handler |-> "None", stream |-> "None", log_source |-> "None",
     body |-> JsonValue("invalid", <<>>), now |-> 0]

Request(handler, stream, log_source, body, now) ==
    [handler |-> handler, stream |-> stream, log_source |-> log_source,
     body |-> body, now |-> now]

\* the collaborator outcomes that can make a difference for request r
FailuresOf(r) ==
    {f \in Failures : f.at <= Max(1, Len(r.body.items))}

ExternalsOf(r) ==
    IF r.handler = "ingest" /\ r.stream # "None" /\ ~stream_exists(STREAM_INFO, r.stream)
    THEN IF mode = "Ingest"
         THEN {e \in Externals : e.create = "Ok"}
         ELSE {e \in Externals : e.list_ok /\ e.upsert_ok}
    ELSE {NoExternalFailure}

(***************************************************************************)
(* Actions                                                                 *)
(***************************************************************************)
Complete(r, h) ==
    /\ phase' = "handled"
    /\ req' = r
    /\ STREAM_INFO' = h.registry
    /\ storage' = h.store
    /\ result' = h.res
    /\ response' = Respond(h.res)
    /\ events' = h.events
    /\ pushes' = h.pushes
    /\ UNCHANGED <<mode, counts_in, counts_out, input, output, Background>>

Ingest ==
    /\ phase = "idle"
    /\ \E stream \in StreamNames \cup {"None"}, log_source \in LogSources, now \in NowValues :
         \E body \in BodiesOf(log_source) :
           LET r == Request("ingest", stream, log_source, body, now)
           IN  \E fail \in FailuresOf(r), ext \in ExternalsOf(r) :
                 \E h \in {ingest(STREAM_INFO, storage, mode, r, now, fail, ext)} :
                   Complete(r, h)

PostEvent ==
    /\ phase = "idle"
    /\ \E stream \in StreamNames, log_source \in LogSources, now \in NowValues :
         \E body \in BodiesOf(log_source) :
           LET r == Request("post_event", stream, log_source, body, now)
           IN  \E fail \in FailuresOf(r) :
                 \E h \in {post_event(STREAM_INFO, storage, r, now, fail)} :
                   Complete(r, h)

\* any other PostError a handler of the service returns goes through the same
\* ResponseError implementation
ErrorResponse ==
    /\ phase = "idle"
    /\ \E e \in PostErrors :
         /\ phase' = "handled"
         /\ req' = NoRequest
         /\ result' = e
         /\ response' = Respond(e)
         /\ events' = <<>>
         /\ pushes' = <<>>
         /\ UNCHANGED <<mode, storage, STREAM_INFO, counts_in, counts_out, input, output, Background>>

\* the request is over: its context is dropped and the worker is free again
Finish ==
    /\ phase = "handled"
    /\ phase' = "idle"
    /\ req' = NoRequest
    /\ result' = OkResult
    /\ response' = NoResponse
    /\ events' = <<>>
    /\ pushes' = <<>>
    /\ UNCHANGED <<mode, storage, STREAM_INFO, counts_in, counts_out, input, output, Background>>

\* another node of the deployment creates the stream in the shared object store
StorageCreate ==
    /\ phase = "idle"
    /\ \E s \in StreamNames \ DOMAIN storage, fmt \in ObjectStoreFormat :
         storage' = Put(storage, s, fmt)
    /\ UNCHANGED <<mode, STREAM_INFO, phase, req, result, response, pushes, events,
                   counts_in, counts_out, input, output, Background>>

\* another node of the deployment deletes the stream from the shared object store
StorageDelete ==
    /\ phase = "idle"
    /\ \E s \in DOMAIN storage :
         storage' = [x \in DOMAIN storage \ {s} |-> storage[x]]
    /\ UNCHANGED <<mode, STREAM_INFO, phase, req, result, response, pushes, events,
                   counts_in, counts_out, input, output, Background>>

NoCounts == [stream |-> "None"]

\* no call of the query or conversion layer is being looked at
NoCall == [fn |-> "None"]

\* the service starts over an object store and loads its streams in the registry
Init ==
    /\ mode \in Modes
    /\ storage \in Partial(StreamNames, ObjectStoreFormat)
    /\ STREAM_INFO = [s \in DOMAIN storage |-> [schema |-> storage[s].schema]]
    /\ phase = "idle"
    /\ req = NoRequest
    /\ result = OkResult
    /\ response = NoResponse
    /\ events = <<>>
    /\ pushes = <<>>
    /\ counts_in = NoCounts
    /\ counts_out = NoCounts
    /\ input = NoCall
    /\ output = NoCall
    /\ NoBackground

Next ==
    \/ Ingest
    \/ PostEvent
    \/ ErrorResponse
    \/ Finish
    \/ StorageCreate
    \/ StorageDelete

Spec == Init /\ [][Next]_vars

(***************************************************************************)
(* Counts engine: CountsRequest::get_bin_density                           *)
(***************************************************************************)
\* Instants are counted in ticks; a minute is TicksPerMinute ticks, so that a
\* range need not be a whole number of minutes.
TicksPerMinute == 2
MaxMinutes == 11
MaxBins == 3

MaxTick == MaxMinutes * TicksPerMinute + 1

DEFAULT_TIMESTAMP_KEY == "p_timestamp"

\* TypedStatistics of a column, or None
NoStats == [type |-> "None", min |-> 0]
IntStats(min) == [type |-> "Int", min |-> min]
FloatStats == [type |-> "Float", min |-> 0]

Column(name, stats) == [name |-> name, stats |-> stats]

\* minutes at which the files of the model have their partition minimum
FileMinutes == {0, 5, 11}

\* the column lists a manifest file may carry
ColumnLists ==
    {<<>>,
     <<Column(DEFAULT_TIMESTAMP_KEY, NoStats)>>,
     <<Column(DEFAULT_TIMESTAMP_KEY, FloatStats)>>,
     <<Column(TimeField, IntStats(5 * TicksPerMinute)),
       Column(DEFAULT_TIMESTAMP_KEY, IntStats(MaxTick))>>,
     <<Column(DEFAULT_TIMESTAMP_KEY, IntStats(10 * TicksPerMinute + 1))>>}
    \cup {<<Column(DEFAULT_TIMESTAMP_KEY, IntStats(m * TicksPerMinute))>> : m \in FileMinutes}

\* the latest file of the catalog: late in the range, or without the column
LastColumnLists ==
    {<<>>,
     <<Column(DEFAULT_TIMESTAMP_KEY, IntStats(10 * TicksPerMinute + 1))>>,
     <<Column(DEFAULT_TIMESTAMP_KEY, IntStats(11 * TicksPerMinute))>>}

\* num_rows of the files of the catalog, in manifest order
FileRows == <<10, 20, 30>>

FileColumns ==
    {cols \in [1..Len(FileRows) -> ColumnLists] : cols[Len(FileRows)] \in LastColumnLists}

\* the manifests get_manifest_list returned: the first file in a manifest of
\* its own, the others together in a second one
Manifests(files) ==
    IF Len(files) <= 1 THEN <<[files |-> files]>>
    ELSE <<[files |-> <<Head(files)>>], [files |-> Tail(files)]>>

\* TimeRange::parse_human_time: the range must end after it starts
parse_human_time(start_time, end_time) ==
    IF end_time <= start_time THEN [ok |-> FALSE, start |-> 0, end |-> 0]
    ELSE [ok |-> TRUE, start |-> start_time, end |-> end_time]

\* chrono: Duration::minutes(n) in ticks; signed_duration_since(..).num_minutes()
Minutes(n) == n * TicksPerMinute
num_minutes(d) == d \div TicksPerMinute

\* DateTime::from_timestamp_millis and to_rfc3339 on instants in ticks
from_timestamp_millis(min) == min
to_rfc3339(t) == <<"rfc3339", t>>

TimeBounds(start, end) == [start |-> start, end |-> end]

\* the loop `for _ in 0..loop_end` of get_bounds: n bins of quotient minutes
RECURSIVE bounds_loop(_, _, _)
bounds_loop(n, start, quotient) ==
    IF n = 0 THEN [bounds |-> <<>>, start |-> start]
    ELSE LET end == start + Minutes(quotient)
         IN  With(bounds_loop(n - 1, end, quotient), LAMBDA rest :
               [bounds |-> <<TimeBounds(start, end)>> \o rest.bounds, start |-> rest.start])

\* get_bounds that never appends a bin: the remainder is added to the last of
\* num_bins bins
get_bounds_remainder_in_last(num_bins, time_range) ==
    LET total_minutes == num_minutes(time_range.end - time_range.start)
        quotient == total_minutes \div num_bins
        remainder == total_minutes % num_bins
    IN  With(bounds_loop(num_bins - 1, time_range.start, quotient), LAMBDA loop :
          loop.bounds \o <<TimeBounds(loop.start,
                                      loop.start + Minutes(quotient + remainder))>>)

get_bounds(num_bins, time_range) ==
    LET total_minutes == num_minutes(time_range.end - time_range.start)
        quotient == total_minutes \div num_bins
        remainder == total_minutes % num_bins
        have_remainder == remainder > 0
        loop_end == IF have_remainder THEN num_bins ELSE num_bins - 1
    IN  With(bounds_loop(loop_end, time_range.start, quotient), LAMBDA loop :
          LET start == loop.start
          IN  IF have_remainder
              THEN loop.bounds \o <<TimeBounds(start, start + Minutes(remainder))>>
              ELSE loop.bounds \o <<TimeBounds(start, start + Minutes(quotient))>>)

\* `bin.start <= min && bin.end >= min`
bin_matches(bin, min) == bin.start <= min /\ bin.end >= min

\* file_in_bin that looks at the statistics of any column, whatever its name
file_in_bin_any_column(f, time_partition, bin) ==
    \E i \in 1..Len(f.columns) :
        LET c == f.columns[i]
        IN  /\ c.stats.type = "Int"
            /\ bin_matches(bin, from_timestamp_millis(c.stats.min))

\* the closure of filter_map: does file f count for the bin
file_in_bin(f, time_partition, bin) ==
    \E i \in 1..Len(f.columns) :
        LET c == f.columns[i]
        IN  /\ c.name = time_partition
            /\ c.stats.type = "Int"
            /\ bin_matches(bin, from_timestamp_millis(c.stats.min))

\* all_manifest_files.iter().flat_map(|m| &m.files)
RECURSIVE flat_files(_)
flat_files(manifests) ==
    IF manifests = <<>> THEN <<>>
    ELSE Head(manifests).files \o flat_files(Tail(manifests))

RECURSIVE sum_rows(_, _, _)
sum_rows(files, time_partition, bin) ==
    IF files = <<>> THEN 0
    ELSE (IF file_in_bin(Head(files), time_partition, bin) THEN Head(files).num_rows ELSE 0)
         + sum_rows(Tail(files), time_partition, bin)

CountsRecord(bin, count) ==
    [start_time |-> to_rfc3339(bin.start), end_time |-> to_rfc3339(bin.end), count |-> count]

\* get_bin_density that drops the `?` on parse_human_time: the range is used
\* whether or not it was accepted
get_bin_density_unchecked_range(c) ==
    LET time_partition == IF c.time_partition = "None" THEN DEFAULT_TIMESTAMP_KEY
                          ELSE c.time_partition
        time_range == [ok |-> TRUE, start |-> c.start_time, end |-> c.end_time]
    IN  IF c.num_bins = 0
        THEN [stream |-> c.stream, res |-> "Panic", records |-> <<>>, bounded |-> <<>>]
        ELSE
          With(<<get_bounds(c.num_bins, time_range), flat_files(c.all_manifest_files)>>,
               LAMBDA in :
            LET counts == in[1]
                files == in[2]
            IN  [stream |-> c.stream, res |-> "Ok",
                 records |-> [i \in 1..Len(counts) |->
                                CountsRecord(counts[i],
                                             sum_rows(files, time_partition, counts[i]))],
                 bounded |-> <<time_range>>])

\* records: the Vec<CountsRecord> returned; bounded: the time ranges get_bounds
\* was called on during the call
get_bin_density(c) ==
    LET time_partition == IF c.time_partition = "None" THEN DEFAULT_TIMESTAMP_KEY
                          ELSE c.time_partition
        time_range == parse_human_time(c.start_time, c.end_time)
    IN  IF ~time_range.ok
        THEN [stream |-> c.stream, res |-> "Invalid", records |-> <<>>, bounded |-> <<>>]
        ELSE IF c.num_bins = 0     \* total_minutes / self.num_bins divides by zero
        THEN [stream |-> c.stream, res |-> "Panic", records |-> <<>>, bounded |-> <<>>]
        ELSE
          With(<<get_bounds(c.num_bins, time_range), flat_files(c.all_manifest_files)>>,
               LAMBDA in :
            LET counts == in[1]
                files == in[2]
            IN  [stream |-> c.stream, res |-> "Ok",
                 records |-> [i \in 1..Len(counts) |->
                                CountsRecord(counts[i],
                                             sum_rows(files, time_partition, counts[i]))],
                 bounded |-> <<time_range>>])

CountsInputs ==
    {[stream |-> "app", time_partition |-> tp, start_time |-> s, end_time |-> e,
      num_bins |-> n,
      all_manifest_files |->
          Manifests([i \in 1..Len(FileRows) |-> [num_rows |-> FileRows[i], columns |-> cols[i]]])] :
        tp \in TimePartitions, s \in 0..1, e \in 0..MaxTick, n \in 1..MaxBins,
        cols \in FileColumns}

InitCounts ==
    /\ mode = "All"
    /\ storage = [s \in {} |-> [time_partition |-> "None", schema |-> {}]]
    /\ STREAM_INFO = [s \in {} |-> [schema |-> {}]]
    /\ phase = "idle"
    /\ req = NoRequest
    /\ result = OkResult
    /\ response = NoResponse
    /\ events = <<>>
    /\ pushes = <<>>
    /\ counts_in \in CountsInputs
    /\ counts_out = NoCounts
    /\ input = NoCall
    /\ output = NoCall
    /\ NoBackground

GetBinDensity ==
    /\ counts_in # NoCounts
    /\ counts_out = NoCounts
    /\ counts_out' = get_bin_density(counts_in)
    /\ UNCHANGED <<mode, storage, STREAM_INFO, phase, req, result, response, pushes,
                   events, counts_in, input, output, Background>>

NextCounts == GetBinDensity

SpecCounts == InitCounts /\ [][NextCounts]_vars

(***************************************************************************)
(* Query: logical plans, final_logical_plan and first_table_name           *)
(***************************************************************************)
MaxPlanDepth == 2   \* nesting of the plans a query is given

\* the actions of the query and conversion layers leave the services alone
Services == <<mode, storage, STREAM_INFO, phase, req, result, response, pushes,
              events, counts_in, counts_out, Background>>

\* the services are not running while a function is looked at on its own
NoService ==
    /\ mode = "All"
    /\ storage = [s \in {} |-> [time_partition |-> "None", schema |-> {}]]
    /\ STREAM_INFO = [s \in {} |-> [schema |-> {}]]
    /\ phase = "idle"
    /\ req = NoRequest
    /\ result = OkResult
    /\ response = NoResponse
    /\ events = <<>>
    /\ pushes = <<>>
    /\ counts_in = NoCounts
    /\ counts_out = NoCounts
    /\ NoBackground

\* datafusion Expr: a column, a literal, a binary expression or IS NOT NULL
Expr(e, relation, name, op, args) ==
    [e |-> e, relation |-> relation, name |-> name, op |-> op, args |-> args]

ColumnExpr(relation, name) == Expr("Column", relation, name, "", <<>>)
Literal(v) == Expr("Literal", "None", "", "", <<v>>)
BinaryExpr(left, op, right) == Expr("BinaryExpr", "None", "", op, <<left, right>>)
IsNotNull(x) == Expr("IsNotNull", "None", "", "", <<x>>)

\* datafusion::logical_expr::and
and(left, right) == BinaryExpr(left, "And", right)

\* PartialTimeFilter::Low / High over a Bound, and binary_expr on a column
Low(bound, t) == [side |-> "Low", bound |-> bound, t |-> t]
High(bound, t) == [side |-> "High", bound |-> bound, t |-> t]

binary_expr(filter, left) ==
    LET op == CASE filter.side = "Low" /\ filter.bound = "Included" -> ">="
                [] filter.side = "Low" /\ filter.bound = "Excluded" -> ">"
                [] filter.side = "High" /\ filter.bound = "Excluded" -> "<"
                [] OTHER -> "<="
    IN  BinaryExpr(left, op, Literal(filter.t))

\* LogicalPlan nodes; inputs are the children, left to right
Plan(op, table, filters, expr, inputs) ==
    [op |-> op, table |-> table, filters |-> filters, expr |-> expr, inputs |-> inputs]

TableScan(table_name, filters) == Plan("TableScan", table_name, filters, <<>>, <<>>)
Projection(p) == Plan("Projection", "", <<>>, <<>>, <<p>>)
Filter(predicate, p) == Plan("Filter", "", <<>>, <<predicate>>, <<p>>)
Join(left, right) == Plan("Join", "", <<>>, <<>>, <<left, right>>)
Explain(stringified_plans, p) == Plan("Explain", "", <<>>, stringified_plans, <<p>>)
EmptyRelation == Plan("EmptyRelation", "", <<>>, <<>>, <<>>)

\* LogicalPlan::to_stringified(PlanType::InitialLogicalPlan)
to_stringified(p) == <<"InitialLogicalPlan", p>>

\* the filters a scan of the query may already carry
ScanFilters ==
    {<<>>,
     <<BinaryExpr(ColumnExpr("None", TimeField), ">=", Literal(0))>>,
     <<BinaryExpr(ColumnExpr("None", DEFAULT_TIMESTAMP_KEY), "<", Literal(9))>>,
     <<BinaryExpr(ColumnExpr("None", "x"), "=", Literal(1)),
       BinaryExpr(ColumnExpr("None", DEFAULT_TIMESTAMP_KEY), ">=", Literal(0))>>,
     <<BinaryExpr(Literal(0), "<=", ColumnExpr("None", DEFAULT_TIMESTAMP_KEY))>>,
     <<IsNotNull(ColumnExpr("None", TimeField))>>}

TableScans ==
    {TableScan("app", f) : f \in ScanFilters} \cup {TableScan("other", <<>>)}

UserPredicate == BinaryExpr(ColumnExpr("None", "x"), "=", Literal(1))

RECURSIVE Plans(_)
Plans(d) ==
    IF d = 0 THEN TableScans \cup {EmptyRelation}
    ELSE With(Plans(d - 1), LAMBDA sub :
           TableScans \cup {EmptyRelation}
           \cup {Projection(p) : p \in sub}
           \cup {Filter(UserPredicate, p) : p \in sub}
           \cup {Join(l, r) : l \in sub, r \in TableScans})

\* Query { raw_logical_plan, time_range }
TimeRanges == {[start |-> 1, end |-> 5]}

Queries ==
    With(Plans(MaxPlanDepth), LAMBDA plans :
      [raw_logical_plan : plans \cup {Explain(<<to_stringified(p)>>, p) : p \in plans},
       time_range : TimeRanges])

table_contains_any_time_filters(table, time_partition) ==
    \E i \in 1..Len(table.filters) :
        LET x == table.filters[i]
        IN  /\ x.e = "BinaryExpr"
            /\ x.args[1].e = "Column"
            /\ \/ time_partition # "None" /\ x.args[1].name = time_partition
               \/ time_partition = "None" /\ x.args[1].name = DEFAULT_TIMESTAMP_KEY

\* new_filters.into_iter().reduce(and)
RECURSIVE reduce_and(_)
reduce_and(filters) ==
    IF Len(filters) = 1 THEN filters[1]
    ELSE and(reduce_and(SubSeq(filters, 1, Len(filters) - 1)), filters[Len(filters)])

Transformed(data, transformed) == [data |-> data, transformed |-> transformed]

\* the closure transform applies to each node of the plan
transform_node(plan, start_time, end_time, time_partition) ==
    IF plan.op = "TableScan"
    THEN
      LET table == plan
          column == ColumnExpr(table.table,
                               IF time_partition # "None" THEN time_partition
                               ELSE DEFAULT_TIMESTAMP_KEY)
          _start_time_filter == binary_expr(Low("Included", start_time), column)
          _end_time_filter == binary_expr(High("Excluded", end_time), column)
          \* the two pushes are commented out: the staged filters are dropped
          new_filters == <<>>
      IN  IF new_filters # <<>>
          THEN Transformed(Filter(reduce_and(new_filters), table), TRUE)
          ELSE Transformed(table, FALSE)
    ELSE Transformed(plan, FALSE)

\* TreeNode::transform: the children first, then the node itself
RECURSIVE transform(_, _, _, _)
transform(plan, start_time, end_time, time_partition) ==
    With([i \in 1..Len(plan.inputs) |->
             transform(plan.inputs[i], start_time, end_time, time_partition)],
         LAMBDA children :
      With(transform_node([plan EXCEPT !.inputs = [i \in 1..Len(children) |-> children[i].data]],
                          start_time, end_time, time_partition),
           LAMBDA node :
        Transformed(node.data,
                    node.transformed
                    \/ \E i \in 1..Len(children) : children[i].transformed)))

final_logical_plan(query, time_partition) ==
    LET x == query.raw_logical_plan
    IN  IF x.op = "Explain"
        THEN With(transform(x.inputs[1], query.time_range.start, query.time_range.end,
                            time_partition),
                  LAMBDA transformed :
               Explain(<<to_stringified(transformed.data)>>, transformed.data))
        ELSE transform(x, query.time_range.start, query.time_range.end,
                       time_partition).data

\* TableScanVisitor: f_down pushes the name of every table scan, parents
\* before children and children left to right
RECURSIVE visit(_)
visit(node) ==
    IF node.op = "TableScan" THEN <<node.table>>
    ELSE With([i \in 1..Len(node.inputs) |-> visit(node.inputs[i])], LAMBDA below :
           IF Len(below) = 0 THEN <<>>
           ELSE IF Len(below) = 1 THEN below[1]
           ELSE below[1] \o below[2])

\* Vec::pop: the last element, or None
pop(v) == IF v = <<>> THEN "None" ELSE v[Len(v)]

first_table_name(query) == pop(visit(query.raw_logical_plan))

QueryInputs ==
    {[fn |-> "Query", query |-> q, time_partition |-> tp] :
        q \in Queries, tp \in TimePartitions}

InitQuery ==
    /\ NoService
    /\ input \in QueryInputs
    /\ output = NoCall

FinalLogicalPlan ==
    /\ input.fn = "Query"
    /\ output = NoCall
    /\ output' = [fn |-> "final_logical_plan",
                  value |-> final_logical_plan(input.query, input.time_partition)]
    /\ UNCHANGED <<Services, input>>

FirstTableName ==
    /\ input.fn = "Query"
    /\ output = NoCall
    /\ output' = [fn |-> "first_table_name", value |-> first_table_name(input.query)]
    /\ UNCHANGED <<Services, input>>

NextQuery ==
    \/ FinalLogicalPlan
    \/ FirstTableName

SpecQuery == InitQuery /\ [][NextQuery]_vars

(***************************************************************************)
(* get_manifest_list                                                       *)
(***************************************************************************)
MaxSnapshots == 2   \* stream.json objects found under <stream>/.stream/

\* snapshot::ManifestItem
ManifestItem(manifest_path, lower, upper) ==
    [manifest_path |-> manifest_path, time_lower_bound |-> lower, time_upper_bound |-> upper]

ManifestItems ==
    {ManifestItem("m1", 0, 1), ManifestItem("m2", 2, 3), ManifestItem("m3", 1, 5),
     ManifestItem("m4", 5, 6)}

\* Snapshot { manifest_list }
Snapshot(manifest_list) == [manifest_list |-> manifest_list]

Snapshots ==
    {Snapshot(l) : l \in {l \in SeqsUpTo(ManifestItems, 2) :
                            \A i, j \in 1..Len(l) : l[i] = l[j] => i = j}}

\* the bytes of a stream.json: an ObjectStoreFormat, or something serde rejects
StreamJsons ==
    {[ok |-> TRUE, snapshot |-> sn] : sn \in Snapshots}
    \cup {[ok |-> FALSE, snapshot |-> Snapshot(<<>>)]}

\* the manifest file the object store holds at a path
ManifestAt(path) == [path |-> path, files |-> <<>>]

\* Snapshot::manifests: the items whose bounds meet every time filter
manifests(snapshot, time_filter) ==
    SelectSeq(snapshot.manifest_list,
              LAMBDA item :
                \A i \in 1..Len(time_filter) :
                    LET f == time_filter[i]
                    IN  CASE f.side = "Low" /\ f.bound = "Included" -> item.time_upper_bound >= f.t
                          [] f.side = "Low" /\ f.bound = "Excluded" -> item.time_upper_bound > f.t
                          [] OTHER -> item.time_lower_bound <= f.t)

\* Itertools::sorted_by_key(|file| file.time_lower_bound): a stable sort
RECURSIVE insert_by_key(_, _)
insert_by_key(sorted, item) ==
    IF sorted = <<>> THEN <<item>>
    ELSE IF Head(sorted).time_lower_bound <= item.time_lower_bound
    THEN <<Head(sorted)>> \o insert_by_key(Tail(sorted), item)
    ELSE <<item>> \o sorted

RECURSIVE sorted_by_key(_)
sorted_by_key(items) ==
    IF items = <<>> THEN <<>>
    ELSE insert_by_key(sorted_by_key(SubSeq(items, 1, Len(items) - 1)), items[Len(items)])

\* collect_manifest_files: the manifests at the paths, in the order of the paths
collect_manifest_files(paths) == [i \in 1..Len(paths) |-> ManifestAt(paths[i])]

\* the loops `for ob in obs` / `for manifest in snapshot.manifest_list`
RECURSIVE merge_snapshots(_)
merge_snapshots(obs) ==
    IF obs = <<>> THEN <<>>
    ELSE (IF Head(obs).ok THEN Head(obs).snapshot.manifest_list ELSE <<>>)
         \o merge_snapshots(Tail(obs))

ManifestList(res, items) == [res |-> res, manifests |-> items]

\* get_manifest_list that reads the canonical snapshot in every mode
get_manifest_list_canonical_only(m, store, time_range) ==
    IF ~store.object_store_format.ok THEN ManifestList("Err", <<>>)
    ELSE
      LET merged_snapshot == store.object_store_format.snapshot
          time_filter == <<Low("Included", time_range.start),
                           High("Included", time_range.end)>>
          sorted == sorted_by_key(manifests(merged_snapshot, time_filter))
      IN  ManifestList("Ok",
                       collect_manifest_files([i \in 1..Len(sorted) |-> sorted[i].manifest_path]))

\* store.object_store_format: what get_object_store_format(stream) answers;
\* store.obs: what get_objects answers for the stream.json files of the stream
get_manifest_list(m, store, time_range) ==
    IF ~store.object_store_format.ok THEN ManifestList("Err", <<>>)
    ELSE
      LET merged_snapshot ==
              IF m = "Query"
              THEN Snapshot(IF store.obs.ok THEN merge_snapshots(store.obs.objects) ELSE <<>>)
              ELSE store.object_store_format.snapshot
          time_filter == <<Low("Included", time_range.start),
                           High("Included", time_range.end)>>
          sorted == sorted_by_key(manifests(merged_snapshot, time_filter))
      IN  ManifestList("Ok",
                       collect_manifest_files([i \in 1..Len(sorted) |-> sorted[i].manifest_path]))

ManifestInput(m, osf, obs) ==
    [fn |-> "get_manifest_list", mode |-> m,
     store |-> [object_store_format |-> osf, obs |-> obs],
     time_range |-> [start |-> 2, end |-> 4]]

\* what get_objects answers: the objects, or an error
Listings ==
    {[ok |-> TRUE, objects |-> objs] : objs \in SeqsUpTo(StreamJsons, MaxSnapshots)}
    \cup {[ok |-> FALSE, objects |-> <<>>]}

\* a query node is given every listing and a few canonical snapshots; the
\* other nodes every canonical snapshot and the listings of at most one object
ManifestInputs ==
    {ManifestInput("Query", osf, obs) :
        osf \in {j \in StreamJsons : Len(j.snapshot.manifest_list) = 0}
                \cup {[ok |-> TRUE, snapshot |-> Snapshot(<<ManifestItem("m2", 2, 3)>>)]},
        obs \in Listings}
    \cup {ManifestInput(m, osf, obs) :
            m \in Modes \ {"Query"}, osf \in StreamJsons,
            obs \in {l \in Listings : Len(l.objects) <= 1}}

InitManifests ==
    /\ NoService
    /\ input \in ManifestInputs
    /\ output = NoCall

GetManifestList ==
    /\ input.fn = "get_manifest_list"
    /\ output = NoCall
    /\ output' = [fn |-> "get_manifest_list",
                  value |-> get_manifest_list(input.mode, input.store, input.time_range)]
    /\ UNCHANGED <<Services, input>>

NextManifests == GetManifestList

SpecManifests == InitManifests /\ [][NextManifests]_vars

(***************************************************************************)
(* catalog::partition_path                                                 *)
(***************************************************************************)
SecondsPerDay == 86400

\* DateTime<Utc> values as seconds since the epoch: the start, the middle and
\* the last second of 2023-12-31, 2024-01-01, 2024-02-29 and 2024-03-01
Days == {19722, 19723, 19782, 19783}

DateTimes == {d * SecondsPerDay + sec : d \in Days, sec \in {0, 43200, 86399}}

\* DateTime<Utc>::date_naive: the calendar date of the instant in UTC
date_naive(t) ==
    LET z == (t \div SecondsPerDay) + 719468
        era == z \div 146097
        doe == z - era * 146097
        yoe == (doe - doe \div 1460 + doe \div 36524 - doe \div 146096) \div 365
        doy == doe - (365 * yoe + yoe \div 4 - yoe \div 100)
        mp == (5 * doy + 2) \div 153
        day == doy - (153 * mp + 2) \div 5 + 1
        month == IF mp < 10 THEN mp + 3 ELSE mp - 9
        year == yoe + era * 400 + (IF month <= 2 THEN 1 ELSE 0)
    IN  [year |-> year, month |-> month, day |-> day]

Digit(n) == <<"0", "1", "2", "3", "4", "5", "6", "7", "8", "9">>[n + 1]

\* the decimal digits of n, zero-padded to width w
RECURSIVE Padded(_, _)
Padded(n, w) == IF w = 0 THEN <<>> ELSE Padded(n \div 10, w - 1) \o <<Digit(n % 10)>>

\* NaiveDate::format("%Y-%m-%d").to_string(), as the sequence of its characters
format_date(date) ==
    Padded(date.year, 4) \o <<"-">> \o Padded(date.month, 2) \o <<"-">> \o Padded(date.day, 2)

\* RelativePathBuf::from_iter: the components of the path
from_iter(components) == components

\* partition_path that compares the two instants instead of their dates
partition_path_compares_instants(stream, lower_bound, upper_bound) ==
    LET lower == format_date(date_naive(lower_bound))
        upper == format_date(date_naive(upper_bound))
    IN  IF lower_bound = upper_bound
        THEN from_iter(<<stream, <<"date=">> \o lower>>)
        ELSE from_iter(<<stream, <<"date=">> \o lower \o <<":">> \o upper>>)

partition_path(stream, lower_bound, upper_bound) ==
    LET lower == format_date(date_naive(lower_bound))
        upper == format_date(date_naive(upper_bound))
    IN  IF lower = upper
        THEN from_iter(<<stream, <<"date=">> \o lower>>)
        ELSE from_iter(<<stream, <<"date=">> \o lower \o <<":">> \o upper>>)

PartitionInputs ==
    {[fn |-> "partition_path", stream |-> st, lower_bound |-> lo, upper_bound |-> hi] :
        st \in {"app", "other"}, lo \in DateTimes, hi \in DateTimes}

InitPartition ==
    /\ NoService
    /\ input \in PartitionInputs
    /\ output = NoCall

PartitionPath ==
    /\ input.fn = "partition_path"
    /\ output = NoCall
    /\ output' = [fn |-> "partition_path",
                  value |-> partition_path(input.stream, input.lower_bound,
                                           input.upper_bound)]
    /\ UNCHANGED <<Services, input>>

NextPartition == PartitionPath

SpecPartition == InitPartition /\ [][NextPartition]_vars

(***************************************************************************)
(* into_event_batch on typed payloads: the columns of the record batch     *)
(***************************************************************************)
MaxBatchRows == 2   \* longest JSON array given to the conversion

DEFAULT_TAGS_KEY == "p_tags"
DEFAULT_METADATA_KEY == "p_metadata"

\* the keys of the payloads, in the order of their names
Keys == <<"a", "b", "c">>

KeySet == {Keys[i] : i \in 1..Len(Keys)}

\* a JSON leaf value with the arrow type inferred for it
Leaf(t, v) == [t |-> t, v |-> v]
Null == Leaf("null", "null")

LeafValues(key) ==
    CASE key = "a" -> {Null, Leaf("int64", "1")}
      [] key = "b" -> {Leaf("utf8", "hello"), Leaf("int64", "1")}
      [] OTHER -> {Null, Leaf("int64", "1"), Leaf("float64", "1.22")}

\* JSON objects: a value for some of the keys
TypedObjects ==
    UNION {{f \in [S -> UNION {LeafValues(k) : k \in KeySet}] :
                \A k \in S : f[k] \in LeafValues(k)} : S \in SUBSET KeySet}

\* elements of JSON arrays: the objects whose "a" and "b" are well typed, and
\* a scalar
TypedElements ==
    {[t |-> "object", fields |-> f] :
        f \in {g \in TypedObjects :
                 /\ "a" \in DOMAIN g => g["a"] = Leaf("int64", "1")
                 /\ "b" \in DOMAIN g => g["b"] = Leaf("utf8", "hello")}}
    \cup {[t |-> "scalar", fields |-> <<>>]}

TypedBodies ==
    {JsonValue("scalar", <<>>)}
    \cup {JsonValue("object", <<[t |-> "object", fields |-> f]>>) : f \in TypedObjects}
    \cup {JsonValue("array", a) : a \in SeqsUpTo(TypedElements, MaxBatchRows)}

\* HashMap<String, Arc<Field>>: the type of each field of the stored schema
NoSchema == [k \in {} |-> "null"]

FullSchema == [k \in KeySet |-> CASE k = "a" -> "int64" [] k = "b" -> "utf8"
                                  [] OTHER -> "float64"]

StoredSchemas == {NoSchema, FullSchema, [k \in {"c"} |-> "float64"]}

\* the request headers: the tags and metadata they carry, or a malformed value
HttpRequest(valid, tags, metadata) == [valid |-> valid, tags |-> tags, metadata |-> metadata]

Field(name, data_type) == [name |-> name, data_type |-> data_type]

RecordBatch(schema, columns, num_rows) ==
    [schema |-> schema, columns |-> columns, num_rows |-> num_rows]

NoBatch == RecordBatch(<<>>, <<>>, 0)

Converted(res, rb, is_first) == [res |-> res, rb |-> rb, is_first |-> is_first]

\* the data type of the first non-null value of the key in the rows
first_type(rows, key) ==
    LET idx == {i \in 1..Len(rows) :
                    key \in DOMAIN rows[i].fields /\ rows[i].fields[key].t # "null"}
    IN  IF idx = {} THEN "null"
        ELSE rows[CHOOSE i \in idx : \A j \in idx : i <= j].fields[key].t

\* a non-null value of the row does not have the type of its field
fields_mismatch(schema, row) ==
    \E k \in DOMAIN row.fields :
        /\ row.fields[k].t # "null"
        /\ k \notin DOMAIN schema \/ schema[k] # row.fields[k].t

\* the schema of the event: the stored fields of its keys when the stream knows
\* them all; otherwise (no static schema) the inferred fields merged with the
\* stored ones
event_schema(rows, schema, static_schema_flag) ==
    LET keys == UNION {DOMAIN rows[i].fields : i \in 1..Len(rows)}
        inferred == [k \in keys |-> first_type(rows, k)]
    IN  IF keys \subseteq DOMAIN schema
        THEN [ok |-> TRUE, fields |-> [k \in keys |-> schema[k]]]
        ELSE IF static_schema_flag # "None"
        THEN [ok |-> FALSE, fields |-> NoSchema]
        ELSE IF \E k \in keys \cap DOMAIN schema :
                    inferred[k] # "null" /\ inferred[k] # schema[k]
        THEN [ok |-> FALSE, fields |-> NoSchema]
        ELSE [ok |-> TRUE,
              fields |-> [k \in keys \cup DOMAIN schema |->
                            IF k \in DOMAIN schema THEN schema[k] ELSE inferred[k]]]

\* format::json::Event::into_recordbatch on scalar leaves
json_into_recordbatch(event, schema, static_schema_flag) ==
    IF event.data.kind \notin {"object", "array"}
       \/ \E i \in 1..Len(event.data.items) : event.data.items[i].t # "object"
    THEN [ok |-> FALSE, rb |-> NoBatch, is_first |-> FALSE]
    ELSE
      LET rows == event.data.items
      IN  With(event_schema(rows, schema, static_schema_flag), LAMBDA es :
            IF ~es.ok \/ \E i \in 1..Len(rows) : fields_mismatch(es.fields, rows[i])
            THEN [ok |-> FALSE, rb |-> NoBatch, is_first |-> FALSE]
            ELSE
              LET names == SelectSeq(Keys, LAMBDA k : k \in DOMAIN es.fields)
                  fields == <<Field(DEFAULT_TIMESTAMP_KEY, "timestamp")>>
                            \o [i \in 1..Len(names) |-> Field(names[i], es.fields[names[i]])]
                            \o <<Field(DEFAULT_TAGS_KEY, "utf8"),
                                 Field(DEFAULT_METADATA_KEY, "utf8")>>
                  cell(i, name) ==
                      CASE name = DEFAULT_TIMESTAMP_KEY -> "now"
                        [] name = DEFAULT_TAGS_KEY -> event.tags
                        [] name = DEFAULT_METADATA_KEY -> event.metadata
                        [] OTHER -> IF name \in DOMAIN rows[i].fields
                                    THEN rows[i].fields[name].v ELSE "null"
              IN  [ok |-> TRUE,
                   rb |-> RecordBatch(fields,
                                      [name \in {fields[j].name : j \in 1..Len(fields)} |->
                                          [i \in 1..Len(rows) |-> cell(i, name)]],
                                      Len(rows)),
                   is_first |-> (DOMAIN schema = {})])

\* into_event_batch that forgets the stored schema of the stream
into_event_batch_full_no_schema(r, body, schema, static_schema_flag) ==
    IF ~r.valid THEN Converted(HeaderError("InvalidValue"), NoBatch, FALSE)
    ELSE
      LET event == [data |-> body, tags |-> r.tags, metadata |-> r.metadata]
      IN  With(json_into_recordbatch(event, NoSchema, static_schema_flag), LAMBDA c :
            IF ~c.ok THEN Converted(Invalid("into_recordbatch", ""), NoBatch, FALSE)
            ELSE Converted(OkResult, c.rb, c.is_first))

\* into_event_batch that converts again without the stored schema when the
\* conversion against it fails
into_event_batch_full_retry_unchecked(r, body, schema, static_schema_flag) ==
    IF ~r.valid THEN Converted(HeaderError("InvalidValue"), NoBatch, FALSE)
    ELSE
      LET event == [data |-> body, tags |-> r.tags, metadata |-> r.metadata]
      IN  With(<<json_into_recordbatch(event, schema, static_schema_flag),
                 json_into_recordbatch(event, NoSchema, "None")>>, LAMBDA c :
            IF c[1].ok THEN Converted(OkResult, c[1].rb, c[1].is_first)
            ELSE IF c[2].ok THEN Converted(OkResult, c[2].rb, c[2].is_first)
            ELSE Converted(Invalid("into_recordbatch", ""), NoBatch, FALSE))

\* into_event_batch that hands over an empty batch when the conversion fails
into_event_batch_full_default_on_error(r, body, schema, static_schema_flag) ==
    IF ~r.valid THEN Converted(HeaderError("InvalidValue"), NoBatch, FALSE)
    ELSE
      LET event == [data |-> body, tags |-> r.tags, metadata |-> r.metadata]
      IN  With(json_into_recordbatch(event, schema, static_schema_flag), LAMBDA c :
            IF ~c.ok THEN Converted(OkResult, NoBatch, FALSE)
            ELSE Converted(OkResult, c.rb, c.is_first))

\* into_event_batch(req, body, schema, static_schema_flag) with the batch in full
into_event_batch_full(r, body, schema, static_schema_flag) ==
    IF ~r.valid THEN Converted(HeaderError("InvalidValue"), NoBatch, FALSE)
    ELSE
      LET event == [data |-> body, tags |-> r.tags, metadata |-> r.metadata]
      IN  With(json_into_recordbatch(event, schema, static_schema_flag), LAMBDA c :
            IF ~c.ok THEN Converted(Invalid("into_recordbatch", ""), NoBatch, FALSE)
            ELSE Converted(OkResult, c.rb, c.is_first))

ConvertInput(r, body, schema, static_schema_flag) ==
    [fn |-> "into_event_batch", req |-> r, body |-> body, schema |-> schema,
     static_schema_flag |-> static_schema_flag]

\* every body against every stored schema; the static schema and a malformed
\* header on some of them
ConvertInputs ==
    {ConvertInput(HttpRequest(TRUE, "a=tag1", "c=meta1"), body, schema, "None") :
        body \in TypedBodies, schema \in StoredSchemas}
    \cup {ConvertInput(HttpRequest(TRUE, "", ""), body, FullSchema, "true") :
            body \in TypedBodies}
    \cup {ConvertInput(HttpRequest(FALSE, "", ""), body, NoSchema, "None") :
            body \in {b \in TypedBodies : b.kind # "array"}}

InitConvert ==
    /\ NoService
    /\ input \in ConvertInputs
    /\ output = NoCall

IntoEventBatch ==
    /\ input.fn = "into_event_batch"
    /\ output = NoCall
    /\ output' = [fn |-> "into_event_batch",
                  value |-> into_event_batch_full(input.req, input.body, input.schema,
                                                  input.static_schema_flag)]
    /\ UNCHANGED <<Services, input>>

NextConvert == IntoEventBatch

SpecConvert == InitConvert /\ [][NextConvert]_vars

(***************************************************************************)
(* query::flatten_objects_for_count                                        *)
(***************************************************************************)
MaxObjects == 3   \* longest list handed to flatten_objects_for_count

\* a u64 as four 16-bit limbs, least significant first
LimbBase == 65536
Limbs == 4

U64(n) == <<n, 0, 0, 0>>
U64_MAX == <<LimbBase - 1, LimbBase - 1, LimbBase - 1, LimbBase - 1>>

RECURSIVE Carry(_, _, _)
Carry(a, b, i) == IF i = 0 THEN 0 ELSE (a[i] + b[i] + Carry(a, b, i - 1)) \div LimbBase

\* a + b on u64: the low 64 bits of the sum, and whether it overflowed
wrapping_add(a, b) == [i \in 1..Limbs |-> (a[i] + b[i] + Carry(a, b, i - 1)) % LimbBase]
overflows(a, b) == Carry(a, b, Limbs) = 1

\* the build profiles: overflow checks on (dev) or off (release)
Profiles == {"dev", "release"}

\* keys as the prefix looked for followed by the rest of the name
Key(prefix, rest) == <<prefix, rest>>
CountKeys == <<Key("COUNT", "(*)"), Key("COUNT", "(ALPHA)"), Key("Num", "")>>
CountKeySet == {CountKeys[i] : i \in 1..Len(CountKeys)}
starts_with(key, prefix) == key[1] = prefix

\* JSON values held under a key: numbers that fit a u64, and a string
Number(n) == [t |-> "u64", n |-> n]
String == [t |-> "string", n |-> U64(0)]
CountValues == {Number(U64(1)), Number(U64(2)), Number(U64_MAX), String}

\* JSON objects of at most one key, and objects of two keys holding 1
CountObjects ==
    UNION {[S -> CountValues] : S \in {T \in SUBSET CountKeySet : Cardinality(T) <= 1}}
    \cup UNION {[S -> {Number(U64(1))}] : S \in {T \in SUBSET CountKeySet : Cardinality(T) = 2}}

CountElements ==
    {[t |-> "object", fields |-> f] : f \in CountObjects}
    \cup {[t |-> "scalar", fields |-> <<>>]}

\* outcome of a call: the list returned, or a panic
Returned(objects) == [kind |-> "Ok", value |-> objects]
Panicked == [kind |-> "Panic", value |-> <<>>]

\* Map::keys().next(): the first key of the object in key order
first_key(fields) ==
    CountKeys[CHOOSE i \in 1..Len(CountKeys) :
                 /\ CountKeys[i] \in DOMAIN fields
                 /\ \A j \in 1..(i - 1) : CountKeys[j] \notin DOMAIN fields]

\* objects.iter().all(|obj| obj.as_object().unwrap().keys().all(starts_with "COUNT")):
\* "true", "false", or "panic" when as_object is None before a key fails
RECURSIVE all_keys_count(_, _)
all_keys_count(objects, i) ==
    IF i > Len(objects) THEN "true"
    ELSE IF objects[i].t # "object" THEN "panic"
    ELSE IF \E key \in DOMAIN objects[i].fields : ~starts_with(key, "COUNT") THEN "false"
    ELSE all_keys_count(objects, i + 1)

\* objects.iter().all(|obj| keys().all(|key| key == objects[0] ... keys().next().unwrap())):
\* the first key of objects[0] is unwrapped each time a key is compared
RECURSIVE all_keys_first(_, _)
all_keys_first(objects, i) ==
    IF i > Len(objects) THEN "true"
    ELSE IF DOMAIN objects[i].fields = {} THEN all_keys_first(objects, i + 1)
    ELSE IF DOMAIN objects[1].fields = {} THEN "panic"
    ELSE IF \E key \in DOMAIN objects[i].fields : key # first_key(objects[1].fields)
         THEN "false"
    ELSE all_keys_first(objects, i + 1)

\* the loop over the objects: accum += fold of the values, [kind, accum]
RECURSIVE accumulate(_, _, _, _)
accumulate(objects, i, accum, profile) ==
    IF i > Len(objects) THEN [kind |-> "Ok", accum |-> accum]
    ELSE
      LET fields == objects[i].fields
      IN  IF \E key \in DOMAIN fields : fields[key].t # "u64"
          THEN [kind |-> "Panic", accum |-> accum]
          ELSE \* at most one key is left here, so the fold is 0 or the one value
            With(IF DOMAIN fields = {} THEN U64(0)
                 ELSE fields[first_key(fields)].n, LAMBDA count :
              IF overflows(accum, count) /\ profile = "dev"
              THEN [kind |-> "Panic", accum |-> accum]
              ELSE accumulate(objects, i + 1, wrapping_add(accum, count), profile))

flatten_objects_for_count(objects, profile) ==
    IF objects = <<>> THEN Returned(objects)
    ELSE
      With(all_keys_count(objects, 1), LAMBDA counts :
        IF counts = "panic" THEN Panicked
        ELSE IF counts = "false" THEN Returned(objects)
        ELSE
          With(all_keys_first(objects, 1), LAMBDA same :
            IF same = "panic" THEN Panicked
            ELSE IF same = "false" THEN Returned(objects)
            ELSE IF DOMAIN objects[1].fields = {} THEN Panicked
            ELSE
              With(accumulate(objects, 1, U64(0), profile), LAMBDA sum :
                IF sum.kind = "Panic" THEN Panicked
                ELSE Returned(<<[t |-> "object",
                                 fields |-> [k \in {first_key(objects[1].fields)} |->
                                               Number(sum.accum)]]>>))))

FlattenInputs ==
    {[fn |-> "flatten_objects_for_count", objects |-> objects] :
        objects \in SeqsUpTo(CountElements, MaxObjects)}

InitFlatten ==
    /\ NoService
    /\ input \in FlattenInputs
    /\ output = NoCall

FlattenObjectsForCount ==
    /\ input.fn = "flatten_objects_for_count"
    /\ output = NoCall
    /\ \E profile \in Profiles :
          output' = [fn |-> "flatten_objects_for_count",
                     value |-> flatten_objects_for_count(input.objects, profile)]
    /\ UNCHANGED <<Services, input>>

NextFlatten == FlattenObjectsForCount

SpecFlatten == InitFlatten /\ [][NextFlatten]_vars

(***************************************************************************)
(* Concurrent handler calls on the shared registry                         *)
(***************************************************************************)
MaxTasks == 2     \* handler calls in flight at once

TaskIds == 1..MaxTasks

\* a call in flight: the handler, the stream it names, where it is suspended,
\* whether it has invoked logstream::create_stream, how its get_stream_schema
\* call ended ("None": not ended) and the Result of the call
Task(kind, stream, pc, created, schema_exit, res) ==
    [kind |-> kind, stream |-> stream, pc |-> pc, created |-> created,
     schema_exit |-> schema_exit, res |-> res]

\* a call enters: ingest at create_stream_if_not_exists, post_event at push_logs
NewTask(kind, stream) ==
    Task(kind, stream, IF kind = "ingest" THEN "stream_exists" ELSE "push_logs",
         FALSE, "None", OkResult)

At(t, pc) == tasks[t].pc = pc

Move(t, pc) == [tasks EXCEPT ![t].pc = pc]

Return(t, res) == [tasks EXCEPT ![t].pc = "done", ![t].res = res]

\* RwLock::read(): the guard is handed out unless a writer holds the lock; the
\* writers of the registry write within one step, so none holds it in between
read(lock, t) == lock \cup {t}

\* RwLock::write(): waits until no read guard is out
write_ready(lock) == lock = {}

\* get_stream_schema that forgets the guard on its error paths
drop_guard_on_success_only(lock, t, res) ==
    IF res.kind = "Ok" THEN lock \ {t} ELSE lock

\* the guard `hash_map` goes out of scope when get_stream_schema returns,
\* whatever it returns
drop_guard(lock, t, res) == lock \ {t}

\* get_stream_schema returns res: the guard is dropped and the call goes on to
\* Event::process, or returns the error
SchemaReturn(t, res, schema_exit) ==
    /\ registry_lock' = drop_guard(registry_lock, t, res)
    /\ tasks' = [tasks EXCEPT ![t].schema_exit = schema_exit,
                              ![t].res = res,
                              ![t].pc = IF res.kind = "Ok" THEN "process" ELSE "done"]

\* the calls start on a store and a registry loaded from it; on an ingest node
\* a stream another node created may be in the store and not yet in the registry
InitTasks ==
    /\ mode \in Modes
    /\ storage \in Partial(StreamNames, ObjectStoreFormat)
    /\ STREAM_INFO \in {[s \in D |-> [schema |-> storage[s].schema]] :
                          D \in (IF mode = "Ingest" THEN SUBSET DOMAIN storage
                                 ELSE {DOMAIN storage})}
    /\ phase = "idle"
    /\ req = NoRequest
    /\ result = OkResult
    /\ response = NoResponse
    /\ events = <<>>
    /\ pushes = <<>>
    /\ counts_in = NoCounts
    /\ counts_out = NoCounts
    /\ input = NoCall
    /\ output = NoCall
    /\ tasks \in [TaskIds -> {NewTask(kind, stream) :
                                kind \in {"ingest", "post_event"}, stream \in StreamNames}]
    /\ registry_lock = {}
    /\ gauges = <<>>
    /\ scheduler = NoScheduler

Handlers == <<phase, req, result, response, pushes, events, counts_in, counts_out,
              input, output, gauges, scheduler>>

\* create_stream_if_not_exists: `if STREAM_INFO.stream_exists(stream_name)`
StreamExists(t) ==
    /\ At(t, "stream_exists")
    /\ tasks' = Move(t, IF stream_exists(STREAM_INFO, tasks[t].stream) THEN "push_logs"
                        ELSE IF mode \in {"All", "Query"} THEN "create_stream"
                        ELSE "list_streams")
    /\ UNCHANGED <<mode, storage, STREAM_INFO, registry_lock, Handlers>>

\* logstream::create_stream is invoked: the stream is written to the object
\* store, or the call fails
CreateStream(t) ==
    /\ At(t, "create_stream")
    /\ \E outcome \in {"Ok"} \cup CreateStreamErrors :
         IF outcome = "Ok"
         THEN /\ storage' = Put(storage, tasks[t].stream,
                                [time_partition |-> "None", schema |-> {}])
              /\ tasks' = [tasks EXCEPT ![t].created = TRUE, ![t].pc = "add_stream"]
         ELSE /\ storage' = storage
              /\ tasks' = [tasks EXCEPT ![t].created = TRUE, ![t].pc = "done",
                                        ![t].res = CreateStreamError(outcome)]
    /\ UNCHANGED <<mode, STREAM_INFO, registry_lock, Handlers>>

\* ... and added to the registry under the write lock
AddStream(t) ==
    /\ At(t, "add_stream")
    /\ write_ready(registry_lock)
    /\ STREAM_INFO' = Put(STREAM_INFO, tasks[t].stream, [schema |-> {}])
    /\ tasks' = Move(t, "push_logs")
    /\ UNCHANGED <<mode, storage, registry_lock, Handlers>>

\* Mode::Ingest: store.list_streams().await? and the `contains` test
ListStreams(t) ==
    /\ At(t, "list_streams")
    /\ \E list_ok \in BOOLEAN :
         tasks' = IF ~list_ok THEN Return(t, ObjectStorageError)
                  ELSE IF tasks[t].stream \notin DOMAIN storage
                  THEN Return(t, Invalid("Stream {} not found. Has it been created?",
                                         tasks[t].stream))
                  ELSE Move(t, "upsert_stream_info")
    /\ UNCHANGED <<mode, storage, STREAM_INFO, registry_lock, Handlers>>

\* STREAM_INFO.upsert_stream_info(..).await: loads the stream under the write lock
UpsertStreamInfo(t) ==
    /\ At(t, "upsert_stream_info")
    /\ write_ready(registry_lock)
    /\ \E upsert_ok \in BOOLEAN :
         \E c \in {upsert_stream_info(STREAM_INFO, storage, tasks[t].stream,
                                      [create |-> "Ok", list_ok |-> TRUE,
                                       upsert_ok |-> upsert_ok])} :
           /\ STREAM_INFO' = c.registry
           /\ tasks' = IF c.res.kind = "Ok" THEN Move(t, "push_logs") ELSE Return(t, c.res)
    /\ UNCHANGED <<mode, storage, registry_lock, Handlers>>

\* push_logs: get_object_store_format(&stream_name).await
GetObjectStoreFormat(t) ==
    /\ At(t, "push_logs")
    /\ tasks' = IF tasks[t].stream \in DOMAIN storage THEN Move(t, "get_stream_schema")
                ELSE Return(t, StreamNotFound(tasks[t].stream))
    /\ UNCHANGED <<mode, storage, STREAM_INFO, registry_lock, Handlers>>

\* get_stream_schema: `let hash_map = STREAM_INFO.read().unwrap();`
ReadRegistry(t) ==
    /\ At(t, "get_stream_schema")
    /\ registry_lock' = read(registry_lock, t)
    /\ tasks' = Move(t, "get")
    /\ UNCHANGED <<mode, storage, STREAM_INFO, Handlers>>

\* `hash_map.get(&stream_name).ok_or(PostError::StreamNotFound(stream_name))?`
GetSchema(t) ==
    /\ At(t, "get")
    /\ IF stream_exists(STREAM_INFO, tasks[t].stream)
       THEN tasks' = Move(t, "into_event_batch") /\ registry_lock' = registry_lock
       ELSE SchemaReturn(t, StreamNotFound(tasks[t].stream), "StreamNotFound")
    /\ UNCHANGED <<mode, storage, STREAM_INFO, Handlers>>

\* `into_event_batch(req, body, schema, static_schema_flag)` and the return
ConvertEvent(t) ==
    /\ At(t, "into_event_batch")
    /\ \E res \in {OkResult, HeaderError("InvalidValue"), Invalid("into_recordbatch", "")} :
         SchemaReturn(t, res, IF res.kind = "Ok" THEN "Ok" ELSE "Error")
    /\ UNCHANGED <<mode, storage, STREAM_INFO, Handlers>>

\* `event::Event { .. }.process().await?`
ProcessEvent(t) ==
    /\ At(t, "process")
    /\ \E res \in {OkResult, EventError} : tasks' = Return(t, res)
    /\ UNCHANGED <<mode, storage, STREAM_INFO, registry_lock, Handlers>>

NextTasks ==
    \E t \in DOMAIN tasks :
        \/ StreamExists(t)
        \/ CreateStream(t)
        \/ AddStream(t)
        \/ ListStreams(t)
        \/ UpsertStreamInfo(t)
        \/ GetObjectStoreFormat(t)
        \/ ReadRegistry(t)
        \/ GetSchema(t)
        \/ ConvertEvent(t)
        \/ ProcessEvent(t)

SpecTasks == InitTasks /\ [][NextTasks]_vars

(***************************************************************************)
(* The system telemetry sampler                                            *)
(***************************************************************************)
\* most disks the operating system lists at one sampling
MaxDisks == 2

\* the loop sleeps ten seconds between two calls of run_pending, and the job
\* is scheduled every minute
SleepSeconds == 10
IntervalSeconds == 60

Some(v) == [some |-> TRUE, v |-> v]
None == [some |-> FALSE, v |-> 0]

\* a path is the sequence of its components under the root; its string is
\* "/" for the root and "/a/b" otherwise
CharCount(component) ==
    CASE component = "data" -> 4
      [] component = "staging" -> 7
      [] component = "mnt" -> 3
str_len(path) == IF path = <<>> THEN 1 ELSE SumSeq([i \in 1..Len(path) |-> 1 + CharCount(path[i])])

\* Path::starts_with compares whole components
path_starts_with(path, base) ==
    /\ Len(base) <= Len(path)
    /\ \A i \in 1..Len(base) : base[i] = path[i]

StagingDir == <<"data", "staging">>
MountPoints == {<<>>, <<"data">>, <<"data", "staging">>, <<"mnt">>}

\* a disk of the refreshed list; utf8 tells whether its mount point is valid
\* UTF-8, which a path of the operating system need not be
Disk(mount_point, utf8, total_space, available_space) ==
    [mount_point |-> mount_point, utf8 |-> utf8,
     total_space |-> total_space, available_space |-> available_space]
Disks ==
    {Disk(m, TRUE, 8, a) : m \in MountPoints, a \in {2, 4}}
    \cup {Disk(m, TRUE, 16, 2) : m \in MountPoints}
    \cup {Disk(<<"mnt">>, FALSE, 8, 2)}
DiskLists == UNION {[1..n -> Disks] : n \in 0..MaxDisks}

MemorySamples ==
    {[memory |-> 16, used_memory |-> u, total_swap |-> 4, used_swap |-> 1] : u \in {5, 9}}

\* the stable sort of the list by the length of the mount point's string
sort_by_key(disks) ==
    With(CHOOSE p \in [1..Len(disks) -> 1..Len(disks)] :
            /\ \A i, j \in 1..Len(disks) : i # j => p[i] # p[j]
            /\ \A i, j \in 1..Len(disks) :
                  i < j =>
                    \/ str_len(disks[p[i]].mount_point) < str_len(disks[p[j]].mount_point)
                    \/ /\ str_len(disks[p[i]].mount_point) = str_len(disks[p[j]].mount_point)
                       /\ p[i] < p[j],
         LAMBDA p : [i \in 1..Len(disks) |-> disks[p[i]]])
reverse(s) == [i \in 1..Len(s) |-> s[Len(s) + 1 - i]]

\* get_volume_disk_usage: to_str().unwrap() panics on a mount point that is not
\* valid UTF-8; the sort takes the key of every disk once there are two, and
\* the loop takes it of every disk up to the first match
get_volume_disk_usage(path, refreshed) ==
    With(reverse(sort_by_key(refreshed)), LAMBDA disks :
    With({i \in 1..Len(disks) : disks[i].utf8 /\ path_starts_with(path, disks[i].mount_point)},
         LAMBDA matches :
    With({i \in 1..Len(disks) : ~disks[i].utf8}, LAMBDA invalid :
      IF Len(disks) >= 2 /\ invalid # {}
        THEN [kind |-> "Panic", usage |-> <<None, None, None>>]
      ELSE IF \E i \in invalid : \A m \in matches : i < m
        THEN [kind |-> "Panic", usage |-> <<None, None, None>>]
      ELSE IF matches = {}
        THEN [kind |-> "Ok", usage |-> <<None, None, None>>]
      ELSE With(disks[CHOOSE m \in matches : \A n \in matches : m <= n], LAMBDA disk :
             [kind |-> "Ok",
              usage |-> <<Some(disk.total_space),
                          Some(disk.available_space),
                          Some(disk.total_space - disk.available_space)>>]))))

get_memory_usage(sys) ==
    <<Some(sys.memory), Some(sys.used_memory), Some(sys.total_swap), Some(sys.used_swap)>>

\* IntGaugeVec::with_label_values(..).set(..)
set(g, metric, label, v) == Put(g, <<metric, label>>, v)

\* the scheduled job: the disk gauges are set from the three values in the
\* order total, used, available, and the memory gauges from the four values
set_disk_gauges(g, usage) ==
    IF usage[1].some /\ usage[2].some /\ usage[3].some
      THEN set(set(set(g, "TOTAL_DISK", "staging", usage[1].v),
                   "USED_DISK", "staging", usage[2].v),
               "AVAILABLE_DISK", "staging", usage[3].v)
      ELSE g
set_memory_gauges(g, usage) ==
    IF usage[1].some /\ usage[2].some /\ usage[3].some /\ usage[4].some
      THEN set(set(set(set(g, "MEMORY", "total_memory", usage[1].v),
                       "MEMORY", "used_memory", usage[2].v),
                   "MEMORY", "total_swap", usage[3].v),
               "MEMORY", "used_swap", usage[4].v)
      ELSE g

\* init_system_info_metrics_schedular has spawned the loop; no gauge is set
Spawned == [alive |-> TRUE, elapsed |-> 0, disks |-> <<>>, runs |-> FALSE]
InitMetrics ==
    /\ mode = "All"
    /\ storage = [s \in {} |-> [time_partition |-> "None", schema |-> {}]]
    /\ STREAM_INFO = [s \in {} |-> [schema |-> {}]]
    /\ phase = "idle"
    /\ req = NoRequest
    /\ result = OkResult
    /\ response = NoResponse
    /\ events = <<>>
    /\ pushes = <<>>
    /\ counts_in = NoCounts
    /\ counts_out = NoCounts
    /\ input = NoCall
    /\ output = NoCall
    /\ tasks = <<>>
    /\ registry_lock = {}
    /\ gauges = <<>>
    /\ scheduler = Spawned

Sampler == <<mode, storage, STREAM_INFO, phase, req, result, response, pushes,
             events, counts_in, counts_out, input, output, tasks, registry_lock>>

\* the job is due once a whole interval has passed since it last ran
Due == scheduler.elapsed + SleepSeconds >= IntervalSeconds

\* one turn of the loop with no job due: run_pending returns and the task sleeps
Sleep ==
    /\ scheduler.alive
    /\ ~Due
    /\ scheduler' = [scheduler EXCEPT !.elapsed = @ + SleepSeconds]
    /\ UNCHANGED <<Sampler, gauges>>

\* one turn of the loop with the job due: the job samples the disks and the
\* memory; a panic inside it unwinds the spawned task, and the loop is gone
RunPending ==
    /\ scheduler.alive
    /\ Due
    /\ \E refreshed \in DiskLists, sys \in MemorySamples :
         \E disk_usage \in {get_volume_disk_usage(StagingDir, refreshed)} :
           IF disk_usage.kind = "Panic"
             THEN /\ scheduler' = [alive |-> FALSE, elapsed |-> 0,
                                   disks |-> refreshed, runs |-> TRUE]
                  /\ UNCHANGED gauges
             ELSE /\ gauges' = set_memory_gauges(
                                 set_disk_gauges(gauges, disk_usage.usage),
                                 get_memory_usage(sys))
                  /\ scheduler' = [alive |-> TRUE, elapsed |-> 0,
                                   disks |-> refreshed, runs |-> TRUE]
    /\ UNCHANGED Sampler

NextMetrics == Sleep \/ RunPending

SpecMetrics == InitMetrics /\ [][NextMetrics]_vars

\* the runtime keeps polling the spawned task for as long as it exists
SpecMetricsLive == SpecMetrics /\ WF_vars(Sleep) /\ WF_vars(RunPending)

(***************************************************************************)
(* Properties of the ingestion controller                                  *)
(***************************************************************************)
\* a step of handler h (its request is recorded in req')
HandlerStep(h) == phase = "idle" /\ phase' = "handled" /\ req'.handler = h

\* the request went through the generic path: push_logs on the raw body
GenericSource(r) == r.log_source \notin {LOG_SOURCE_KINESIS, LOG_SOURCE_OTEL}

\* the time-partition field push_logs read for request r ("None": not configured)
TimePartitionOf(r) ==
    IF r.stream \in DOMAIN storage THEN storage[r.stream].time_partition ELSE "None"

ValidTs(v) == v.k = "string" /\ ParseDateTime(v.s).ok

\* C1: an Ingest call for a stream the registry lacks creates it with an empty
\* schema in All/Query mode; in Ingest mode it hydrates the registry when the
\* object store lists the stream and otherwise fails with StreamNotFound (404),
\* creating nothing and handing no event to the processor.
C1_IngestMissingStream ==
    [][(HandlerStep("ingest") /\ req'.stream # "None"
            /\ ~stream_exists(STREAM_INFO, req'.stream)) =>
        LET s == req'.stream IN
        IF mode \in {"All", "Query"}
        THEN result'.kind # "CreateStream" =>
                stream_exists(STREAM_INFO', s) /\ STREAM_INFO'[s].schema = {}
        ELSE IF s \in DOMAIN storage
        THEN (result'.kind \notin {"ObjectStorageError", "StreamNotFound"}) =>
                stream_exists(STREAM_INFO', s)
                /\ STREAM_INFO'[s].schema = storage[s].schema
        ELSE \* list_streams answered and does not list the stream
             result'.kind # "ObjectStorageError" =>
                /\ result' = StreamNotFound(s)
                /\ response'.status = NOT_FOUND
                /\ STREAM_INFO' = STREAM_INFO
                /\ storage' = storage
                /\ events' = <<>>
      ]_vars

\* C2: Post never creates a stream nor adds a registry entry; when the stream
\* is missing from the object store or from the registry the call fails with
\* StreamNotFound (404) and hands no event to the processor.
C2_PostNeverCreates ==
    [][HandlerStep("post_event") =>
        /\ STREAM_INFO' = STREAM_INFO
        /\ storage' = storage
        /\ (req'.stream \notin DOMAIN storage \/ ~stream_exists(STREAM_INFO, req'.stream)) =>
              /\ result' = StreamNotFound(req'.stream)
              /\ response'.status = NOT_FOUND
              /\ events' = <<>>
      ]_vars

\* C3: on a time-partitioned stream a request that fails on one of its rows
\* (time field absent or malformed, conversion error) has handed no row at
\* all to the processor.
C3_NoPartialCommit ==
    (/\ phase = "handled"
     /\ req.handler \in {"ingest", "post_event"}
     /\ GenericSource(req)
     /\ TimePartitionOf(req) # "None"
     /\ result.kind = "Invalid")
    => events = <<>>

\* C4: on a time-partitioned stream a row whose time field is absent or does
\* not parse (malformed string, number, null) makes the call return Invalid
\* with the message of its case, and the call never panics.
C4_BadTimeFieldIsInvalid ==
    (/\ phase = "handled"
     /\ req.handler \in {"ingest", "post_event"}
     /\ GenericSource(req)
     /\ TimePartitionOf(req) # "None")
    => /\ result.kind # "Panic"
       /\ LET conv == convert_array_to_object(req.body, TimePartitionOf(req))
          IN  (/\ req.body.kind # "invalid"
               /\ pushes = <<req.body>>
               /\ conv.ok
               /\ Len(conv.data) >= 1
               /\ ~ValidTs(conv.data[1].ts))
              => /\ response.status = BAD_REQUEST
                 /\ result =
                      IF conv.data[1].ts.k = "absent"
                      THEN Invalid("ingestion failed as field {} is not part of the log",
                                   TimePartitionOf(req))
                      ELSE Invalid("field {} is not in the correct datetime format",
                                   conv.data[1].ts.s)

\* what the claim expects the processor to be handed for request r: one event
\* per row with the row's own time value, or one event for the whole body
ExpectedEvents(r, time_partition) ==
    IF time_partition = "None"
    THEN <<[rb |-> r.body.items, parsed_timestamp |-> r.now]>>
    ELSE LET data == convert_array_to_object(r.body, time_partition).data
         IN  [i \in 1..Len(data) |->
                [rb |-> <<data[i]>>, parsed_timestamp |-> ParseDateTime(data[i].ts.s).t]]

HandedEvents == [i \in 1..Len(events) |->
                    [rb |-> events[i].rb, parsed_timestamp |-> events[i].parsed_timestamp]]

IsPrefix(a, b) == Len(a) <= Len(b) /\ \A i \in 1..Len(a) : a[i] = b[i]

\* request r reaches push_logs with a body that parses, on a stream the store
\* knows, and on a time-partitioned stream all its rows carry a valid time
WellTimed(r) ==
    /\ r.handler \in {"ingest", "post_event"}
    /\ GenericSource(r)
    /\ r.stream \in DOMAIN storage
    /\ r.body.kind # "invalid"
    /\ TimePartitionOf(r) # "None" =>
          LET conv == convert_array_to_object(r.body, TimePartitionOf(r))
          IN  conv.ok /\ \A i \in 1..Len(conv.data) : ValidTs(conv.data[i].ts)

\* C5: on a time-partitioned stream a body of N validly timed rows is handed to
\* the processor as N events, one per row, in input order, each built from its
\* row alone and stamped with that row's time value; without a time partition
\* one event is handed for the whole body, stamped now().  A call that stops
\* early has handed the events of a prefix of the rows.
C5_OneEventPerRow ==
    (phase = "handled" /\ WellTimed(req)) =>
        LET expected == ExpectedEvents(req, TimePartitionOf(req))
        IN  /\ IsPrefix(HandedEvents, expected)
            /\ result.kind = "Ok" =>
                  /\ HandedEvents = expected
                  /\ \A i \in 1..Len(events) : events[i].accepted

C5_Witness ==
    /\ phase = "handled"
    /\ WellTimed(req)
    /\ TimePartitionOf(req) = TimeField
    /\ req.body.kind = "array"
    /\ result.kind = "Ok"
    /\ Len(events) = 2
    /\ events[1].parsed_timestamp = 2
    /\ events[2].parsed_timestamp = 1

\* flatten_and_push_logs was reached by the handler step being taken
ReachesPush ==
    \/ HandlerStep("post_event")
    \/ /\ HandlerStep("ingest")
       /\ req'.stream # "None"
       /\ \/ stream_exists(STREAM_INFO, req'.stream)
          \/ mode \in {"All", "Query"} /\ result'.kind # "CreateStream"

C7_StatusTable ==
    phase = "handled" =>
        /\ result.kind = "Ok" => response.status = 200 /\ response.body = <<>>
        /\ result.kind \in {"SerdeError", "Header", "Invalid"} => response.status = 400
        /\ result.kind = "CreateStream" =>
              response.status = IF result.sub = "StreamNameValidation" THEN 400 ELSE 500
        /\ result.kind = "StreamNotFound" => response.status = 404
        /\ result.kind \in {"Event", "ObjectStorageError", "NetworkError", "CustomError"} =>
              response.status = 500
        /\ result.kind \in PostErrorKinds =>
              /\ response.content_type = "text/plain"
              /\ response.body = <<result.text, result.sub, result.arg>>

C7_Witness ==
    /\ phase = "handled"
    /\ req.handler = "ingest"
    /\ result.kind = "CreateStream"
    /\ result.sub = "StreamNameValidation"
    /\ response.status = 400

\* C8: an Ingest request without the X-P-Stream header fails with the Header
\* error MissingStreamName (400) and has no effect on the registry, the object
\* store or the processor.
C8_MissingStreamHeader ==
    [][(HandlerStep("ingest") /\ req'.stream = "None") =>
        /\ result' = HeaderError("MissingStreamName")
        /\ response'.status = 400
        /\ STREAM_INFO' = STREAM_INFO
        /\ storage' = storage
        /\ events' = <<>>
        /\ pushes' = <<>>
      ]_vars

C8_Witness ==
    /\ phase = "handled"
    /\ req.handler = "ingest"
    /\ req.stream = "None"
    /\ req.body.kind = "object"
    /\ result.kind = "Header"

(***************************************************************************)
(* Properties of the counts engine                                         *)
(***************************************************************************)
CountsDone == counts_out # NoCounts /\ counts_out.res = "Ok"

PartitionColumn(c) ==
    IF c.time_partition = "None" THEN DEFAULT_TIMESTAMP_KEY ELSE c.time_partition

\* files of the request whose partition-time min statistic lies in [lo, hi]
FilesWithMinIn(c, lo, hi) ==
    LET files == flat_files(c.all_manifest_files)
    IN  {i \in 1..Len(files) :
            \E j \in 1..Len(files[i].columns) :
                LET col == files[i].columns[j]
                IN  /\ col.name = PartitionColumn(c)
                    /\ col.stats.type = "Int"
                    /\ lo <= col.stats.min
                    /\ col.stats.min <= hi}

RECURSIVE RowsOf(_, _)
RowsOf(c, idx) ==
    IF idx = {} THEN 0
    ELSE LET i == CHOOSE x \in idx : TRUE
         IN  flat_files(c.all_manifest_files)[i].num_rows + RowsOf(c, idx \ {i})

TotalCount(records) == SumSeq([i \in 1..Len(records) |-> records[i].count])

\* C9: the counts of all bins add up to the num_rows of the files whose
\* partition-time min lies in [start, end]; no file is counted in two bins.
C9_CountsConservation ==
    CountsDone =>
        TotalCount(counts_out.records)
          = RowsOf(counts_in, FilesWithMinIn(counts_in, counts_in.start_time,
                                             counts_in.end_time))

\* the scenario of C10: files of 10, 20 and 30 rows with partition minimum at
\* minutes 0, 5 and 11, a range of 10 minutes from minute 0, two bins
C10_Scenario ==
    /\ counts_in # NoCounts
    /\ counts_in.time_partition = "None"
    /\ counts_in.start_time = 0
    /\ counts_in.end_time = Minutes(10)
    /\ counts_in.num_bins = 2
    /\ LET files == flat_files(counts_in.all_manifest_files)
       IN  /\ [i \in 1..3 |-> files[i].num_rows] = <<10, 20, 30>>
           /\ [i \in 1..3 |-> files[i].columns] =
                 <<<<Column(DEFAULT_TIMESTAMP_KEY, IntStats(Minutes(0)))>>,
                   <<Column(DEFAULT_TIMESTAMP_KEY, IntStats(Minutes(5)))>>,
                   <<Column(DEFAULT_TIMESTAMP_KEY, IntStats(Minutes(11)))>>>>

\* C10: in that scenario the two bins [0,5) and [5,10) have counts 10 and 20:
\* the file at minute 5 is counted in the second bin only.
C10_BoundaryFileCountedOnce ==
    (C10_Scenario /\ CountsDone) =>
        counts_out.records =
            <<CountsRecord(TimeBounds(Minutes(0), Minutes(5)), 10),
              CountsRecord(TimeBounds(Minutes(5), Minutes(10)), 20)>>

InnerPlan(p) == IF p.op = "Explain" THEN p.inputs[1] ELSE p

\* the plan with the range [t_lo, t_hi) injected on every scan that has no
\* filter on the time column
RECURSIVE WithTimeRange(_, _, _, _)
WithTimeRange(p, t_lo, t_hi, time_partition) ==
    IF p.op = "TableScan"
    THEN IF table_contains_any_time_filters(p, time_partition) THEN p
         ELSE LET col == ColumnExpr(p.table, IF time_partition # "None" THEN time_partition
                                             ELSE DEFAULT_TIMESTAMP_KEY)
              IN  Filter(and(BinaryExpr(col, ">=", Literal(t_lo)),
                             BinaryExpr(col, "<", Literal(t_hi))), p)
    ELSE [p EXCEPT !.inputs = [i \in 1..Len(p.inputs) |->
                                  WithTimeRange(p.inputs[i], t_lo, t_hi, time_partition)]]

\* C12: the plan final_logical_plan returns has every table scan that carries
\* no filter on the time-partition column (the default timestamp column when
\* none is configured) wrapped in the filter col >= t_lo AND col < t_hi, and
\* every other scan left as it was.
C12_TimeRangeInjected ==
    (output # NoCall /\ output.fn = "final_logical_plan") =>
        InnerPlan(output.value) =
            WithTimeRange(InnerPlan(input.query.raw_logical_plan),
                          input.query.time_range.start, input.query.time_range.end,
                          input.time_partition)

\* C13: first_table_name returns the name of the table scan met first in the
\* top-down, left-to-right traversal of the plan, and None only for a plan
\* without a table scan.
C13_FirstTableIsFirst ==
    (output # NoCall /\ output.fn = "first_table_name") =>
        LET tables == visit(input.query.raw_logical_plan)
        IN  output.value = IF tables = <<>> THEN "None" ELSE tables[1]

\* the manifest lists the claim has get_manifest_list read in mode m: those of
\* every stream.json under <stream>/.stream/ in Query mode, that of the
\* canonical snapshot otherwise
SourceLists(m, store) ==
    IF m = "Query"
    THEN [i \in 1..Len(store.obs.objects) |->
             IF store.obs.objects[i].ok THEN store.obs.objects[i].snapshot.manifest_list
             ELSE <<>>]
    ELSE <<store.object_store_format.snapshot.manifest_list>>

Intersects(item, time_range) ==
    item.time_lower_bound <= time_range.end /\ item.time_upper_bound >= time_range.start

\* how many entries of the lists are the item
Occurrences(lists, item) ==
    SumSeq([i \in 1..Len(lists) |->
               Cardinality({j \in 1..Len(lists[i]) : lists[i][j] = item})])

LowerBoundOf(path) ==
    (CHOOSE item \in ManifestItems : item.manifest_path = path).time_lower_bound

DateText(day_number) ==
    CASE day_number = 19722 -> <<"2", "0", "2", "3", "-", "1", "2", "-", "3", "1">>
      [] day_number = 19723 -> <<"2", "0", "2", "4", "-", "0", "1", "-", "0", "1">>
      [] day_number = 19782 -> <<"2", "0", "2", "4", "-", "0", "2", "-", "2", "9">>
      [] day_number = 19783 -> <<"2", "0", "2", "4", "-", "0", "3", "-", "0", "1">>

\* C15: partition_path(stream, lo, hi) is {stream}/date=YYYY-MM-DD when lo and
\* hi fall on the same UTC date and {stream}/date=YYYY-MM-DD:YYYY-MM-DD (the
\* date of lo, then the date of hi) otherwise, whatever the times of day.
C15_PartitionPath ==
    (output # NoCall /\ output.fn = "partition_path") =>
        LET lo == input.lower_bound \div 86400
            hi == input.upper_bound \div 86400
        IN  output.value =
              IF lo = hi
              THEN <<input.stream, <<"date=">> \o DateText(lo)>>
              ELSE <<input.stream, <<"date=">> \o DateText(lo) \o <<":">> \o DateText(hi)>>

C15_Witness ==
    /\ output # NoCall
    /\ output.fn = "partition_path"
    /\ input.lower_bound = 19782 * 86400
    /\ input.upper_bound = 19782 * 86400 + 86399
    /\ output.value = <<input.stream,
                        <<"date=", "2", "0", "2", "4", "-", "0", "2", "-", "2", "9">>>>

(***************************************************************************)
(* Properties of the conversion                                            *)
(***************************************************************************)
\* a conversion has run on request headers that parse
Converting == output # NoCall /\ output.fn = "into_event_batch" /\ input.req.valid

\* the payload is a JSON object or an array of JSON objects
RowsPayload(body) ==
    /\ body.kind \in {"object", "array"}
    /\ \A i \in 1..Len(body.items) : body.items[i].t = "object"

\* the keys met in the rows of the payload
LeavesOf(body) == UNION {DOMAIN body.items[i].fields : i \in 1..Len(body.items)}

ColumnNames(rb) == {rb.schema[j].name : j \in 1..Len(rb.schema)}

ColumnType(rb, name) ==
    (CHOOSE f \in {rb.schema[j] : j \in 1..Len(rb.schema)} : f.name = name).data_type

\* C16: a converted object is a batch of exactly 1 row and a converted array
\* of N objects a batch of exactly N rows in input order, a key missing or null
\* in a row giving a null cell in that row; a scalar or an array holding a
\* non-object fails with an error and yields no batch.
C16_RowCount ==
    Converting =>
        LET body == input.body
            v == output.value
        IN  /\ ~RowsPayload(body) => v.res.kind = "Invalid" /\ v.rb = NoBatch
            /\ v.res.kind = "Ok" =>
                  /\ RowsPayload(body)
                  /\ v.rb.num_rows = IF body.kind = "object" THEN 1 ELSE Len(body.items)
                  /\ \A name \in ColumnNames(v.rb) :
                        /\ Len(v.rb.columns[name]) = v.rb.num_rows
                        /\ name \in KeySet =>
                              \A i \in 1..Len(body.items) :
                                  v.rb.columns[name][i] =
                                      IF name \in DOMAIN body.items[i].fields
                                      THEN body.items[i].fields[name].v
                                      ELSE "null"

C16_Witness ==
    /\ Converting
    /\ input.body.kind = "array"
    /\ Len(input.body.items) = 2
    /\ RowsPayload(input.body)
    /\ DOMAIN input.body.items[1].fields = {"b"}
    /\ DOMAIN input.body.items[2].fields = {"a", "b", "c"}
    /\ input.body.items[2].fields["c"] = Null
    /\ output.value.res.kind = "Ok"
    /\ output.value.rb.num_rows = 2
    /\ output.value.rb.columns["a"] = <<"null", "1">>

C18_NullLeafNoColumn ==
    (Converting /\ output.value.res.kind = "Ok") =>
        \A k \in LeavesOf(input.body) \ DOMAIN input.schema :
            LET values == {input.body.items[i].fields[k] :
                             i \in {j \in 1..Len(input.body.items) :
                                      k \in DOMAIN input.body.items[j].fields}}
            IN  IF values = {Null}
                THEN k \notin ColumnNames(output.value.rb)
                ELSE /\ k \in ColumnNames(output.value.rb)
                     /\ ColumnType(output.value.rb, k) = first_type(input.body.items, k)

AllHaveOnly(objects, k) ==
    \A i \in 1..Len(objects) :
        objects[i].t = "object" /\ DOMAIN objects[i].fields = {k}

\* the sum of the values under k, and whether it fits 64 bits
RECURSIVE SumUnder(_, _, _)
SumUnder(objects, k, i) ==
    IF i > Len(objects) THEN [n |-> U64(0), fits |-> TRUE]
    ELSE With(SumUnder(objects, k, i + 1), LAMBDA rest :
           [n |-> wrapping_add(objects[i].fields[k].n, rest.n),
            fits |-> rest.fits /\ ~overflows(objects[i].fields[k].n, rest.n)])

\* C20: flatten_objects_for_count returns the single object {k: sum of all
\* values} exactly when the list is non-empty and every object has the one and
\* same key k starting with COUNT; in every other case it returns the input
\* list unchanged.
C20_FlattenExactlyWhen ==
    (output # NoCall /\ output.fn = "flatten_objects_for_count") =>
        LET objects == input.objects
            v == output.value
        IN  /\ v.kind = "Ok"
            /\ IF objects # <<>> /\ \E k \in CountKeySet :
                                       starts_with(k, "COUNT") /\ AllHaveOnly(objects, k)
               THEN \E k \in CountKeySet :
                       /\ AllHaveOnly(objects, k)
                       /\ Len(v.value) = 1
                       /\ v.value[1].t = "object"
                       /\ DOMAIN v.value[1].fields = {k}
                       /\ v.value[1].fields[k].t = "u64"
                       /\ \A i \in 1..Len(objects) : objects[i].fields[k].t = "u64"
                       /\ SumUnder(objects, k, 1).fits
                       /\ v.value[1].fields[k].n = SumUnder(objects, k, 1).n
               ELSE v.value = objects

(***************************************************************************)
(* Properties of the bins of a counts request                              *)
(***************************************************************************)
\* the instants a returned record spans
BinStart(record) == record.start_time[2]
BinEnd(record) == record.end_time[2]
BinWidth(record) == BinEnd(record) - BinStart(record)

\* whole minutes of the requested range
TotalMinutes(c) == (c.end_time - c.start_time) \div TicksPerMinute

\* C21: with total = whole minutes of (end - start), quotient = total div
\* num_bins and remainder = total mod num_bins: when remainder = 0 exactly
\* num_bins bins are returned, each of quotient minutes; when remainder > 0
\* exactly num_bins + 1 bins are returned, the first num_bins of quotient
\* minutes and a final one of remainder minutes.
C21_BinLayout ==
    CountsDone =>
        LET records == counts_out.records
            n == counts_in.num_bins
            quotient == TotalMinutes(counts_in) \div n
            remainder == TotalMinutes(counts_in) % n
        IN  IF remainder = 0
            THEN /\ Len(records) = n
                 /\ \A i \in 1..n : BinWidth(records[i]) = quotient * TicksPerMinute
            ELSE /\ Len(records) = n + 1
                 /\ \A i \in 1..n : BinWidth(records[i]) = quotient * TicksPerMinute
                 /\ BinWidth(records[n + 1]) = remainder * TicksPerMinute

C21_Witness ==
    /\ CountsDone
    /\ counts_in.num_bins = 3
    /\ TotalMinutes(counts_in) = 11
    /\ Len(counts_out.records) = 4
    /\ BinWidth(counts_out.records[1]) = 3 * TicksPerMinute
    /\ BinWidth(counts_out.records[4]) = 2 * TicksPerMinute

\* C22: the bins returned cover exactly [start_time, end_time): ascending, the
\* first bin starts at start_time, each bin starts where the previous one
\* ends, the last bin ends at end_time, also for a range that is not a whole
\* number of minutes; with num_bins = 1 there is exactly one bin, [start, end).
C22_BinsCoverRange ==
    CountsDone =>
        LET records == counts_out.records
        IN  /\ Len(records) >= 1
            /\ BinStart(records[1]) = counts_in.start_time
            /\ \A i \in 1..(Len(records) - 1) :
                  /\ BinStart(records[i + 1]) = BinEnd(records[i])
                  /\ BinStart(records[i]) <= BinStart(records[i + 1])
            /\ BinEnd(records[Len(records)]) = counts_in.end_time
            /\ counts_in.num_bins = 1 => Len(records) = 1

\* C30: for every num_bins >= 1 and every range with end_time > start_time,
\* every bin returned has positive width, also when the range holds fewer
\* whole minutes than num_bins; hence no two bins are the same interval.
C30_PositiveWidthBins ==
    CountsDone =>
        LET records == counts_out.records
        IN  /\ \A i \in 1..Len(records) : BinStart(records[i]) < BinEnd(records[i])
            /\ \A i, j \in 1..Len(records) :
                  i # j => <<records[i].start_time, records[i].end_time>>
                             # <<records[j].start_time, records[j].end_time>>

\* C23: the count of a bin is the sum of num_rows over the files having a
\* column named by the time-partition field (the default timestamp field when
\* none is configured) whose statistics are Int64 with bin.start <= min <=
\* bin.end, each such file once; a file without that column, without
\* statistics on it or with statistics of another type adds zero to every bin.
C23_CountFromStatistics ==
    CountsDone =>
        \A i \in 1..Len(counts_out.records) :
            counts_out.records[i].count =
                RowsOf(counts_in,
                       FilesWithMinIn(counts_in, BinStart(counts_out.records[i]),
                                      BinEnd(counts_out.records[i])))

C23_Witness ==
    /\ CountsDone
    /\ counts_in.time_partition = TimeField
    /\ LET files == flat_files(counts_in.all_manifest_files)
       IN  /\ files[1].columns = <<Column(TimeField, IntStats(5 * TicksPerMinute)),
                                   Column(DEFAULT_TIMESTAMP_KEY, IntStats(MaxTick))>>
           /\ files[2].columns = <<Column(DEFAULT_TIMESTAMP_KEY, FloatStats)>>
           /\ files[3].columns = <<>>
    /\ \E i \in 1..Len(counts_out.records) : counts_out.records[i].count = FileRows[1]
    /\ TotalCount(counts_out.records) <= 2 * FileRows[1]

(***************************************************************************)
(* Properties of the hand-over to the event processor                      *)
(***************************************************************************)
\* a handler call is over
HandlerDone == phase = "handled" /\ req.handler \in {"ingest", "post_event"}

\* the most events one push_logs call on body can hand over for request r
EventsOfPush(r, body) ==
    IF TimePartitionOf(r) = "None" \/ body.kind \notin {"object", "array"} THEN 1
    ELSE Len(body.items)

\* C25: when the event processor rejects an item the controller does not
\* retry: the error is returned at once, the rejected item is handed to the
\* processor at most once and is the last thing handed to it, and the items
\* accepted before it stay accepted.
C25_NoRetry ==
    HandlerDone =>
        /\ \A i \in 1..Len(events) :
              ~events[i].accepted => (i = Len(events) /\ result = EventError)
        /\ result = EventError =>
              /\ Len(events) >= 1
              /\ ~events[Len(events)].accepted
              /\ \A i \in 1..(Len(events) - 1) : events[i].accepted
        /\ Len(events) <= SumSeq([i \in 1..Len(pushes) |-> EventsOfPush(req, pushes[i])])
        /\ TimePartitionOf(req) = "None" =>
              /\ Len(events) <= Len(pushes)
              /\ \A i \in 1..Len(events) : events[i].rb = pushes[i].items
              /\ result = EventError => Len(pushes) = Len(events)

C25_Witness ==
    /\ HandlerDone
    /\ result = EventError
    /\ req.log_source = LOG_SOURCE_KINESIS
    /\ Len(req.body.items) = 2
    /\ Len(pushes) = 1
    /\ Len(events) = 1
    /\ ~events[1].accepted

\* C29: the origin sizes reported for one push_logs call add up to the size
\* of the body: the sum of origin_size over the events the call hands to the
\* processor is the byte length of the body, also when a body of N rows
\* yields N events.
C29_OriginSizesAddUp ==
    (HandlerDone /\ Len(pushes) = 1 /\ result.kind = "Ok") =>
        SumSeq([i \in 1..Len(events) |-> events[i].origin_size]) = BodyLen(pushes[1])

(***************************************************************************)
(* Properties of concurrent handler calls                                  *)
(***************************************************************************)
\* the task is inside get_stream_schema, after it took the read guard
InGetStreamSchema(t) == tasks[t].pc \in {"get", "into_event_batch"}

\* the task waits for the write lock of the registry
AwaitsWrite(t) == tasks[t].pc \in {"add_stream", "upsert_stream_info"}

\* C24: the read lock get_stream_schema takes on the registry is released on
\* every exit path (success, StreamNotFound, conversion error): a task holds a
\* read guard only while it is inside get_stream_schema, never while it awaits
\* the event processor, and a writer that waits while no task is inside
\* get_stream_schema finds the lock free.
C24_ReadLockReleased ==
    /\ \A t \in DOMAIN tasks : t \in registry_lock => InGetStreamSchema(t)
    /\ \A t \in DOMAIN tasks : tasks[t].pc = "process" => t \notin registry_lock
    /\ \A w \in DOMAIN tasks :
          (AwaitsWrite(w) /\ \A t \in DOMAIN tasks : ~InGetStreamSchema(t))
              => write_ready(registry_lock)

C24_Witness ==
    \E t, w \in DOMAIN tasks :
        /\ tasks[t].schema_exit = "StreamNotFound"
        /\ tasks[t].pc = "done"
        /\ tasks[w].pc = "upsert_stream_info"
        /\ write_ready(registry_lock)

\* C28: under any interleaving of concurrent Ingest calls that name the same
\* stream absent from the registry (All or Query mode), create_stream is
\* invoked at most once for that stream (an invocation that failed aside), and
\* every call that got past create_stream_if_not_exists finds the stream in
\* the registry.
C28_CreateStreamOnce ==
    mode \in {"All", "Query"} =>
        \A s \in StreamNames :
            /\ Cardinality({t \in DOMAIN tasks :
                              /\ tasks[t].kind = "ingest"
                              /\ tasks[t].stream = s
                              /\ tasks[t].created
                              /\ tasks[t].res.kind # "CreateStream"}) <= 1
            /\ \A t \in DOMAIN tasks :
                  (/\ tasks[t].kind = "ingest"
                   /\ tasks[t].stream = s
                   /\ tasks[t].pc \in {"push_logs", "get_stream_schema", "get",
                                       "into_event_batch", "process"})
                      => stream_exists(STREAM_INFO, s)

(***************************************************************************)
(* Properties of the telemetry sampler                                     *)
(***************************************************************************)
\* the disks of a list whose mount point is a prefix of the staging directory,
\* and among them those with the longest mount point
Matching(disks) ==
    {disks[i] : i \in {j \in 1..Len(disks) :
                        disks[j].utf8 /\ path_starts_with(StagingDir, disks[j].mount_point)}}
LongestMatches(disks) ==
    {d \in Matching(disks) :
        \A e \in Matching(disks) : str_len(e.mount_point) <= str_len(d.mount_point)}

DiskKeys == {<<"TOTAL_DISK", "staging">>, <<"USED_DISK", "staging">>,
             <<"AVAILABLE_DISK", "staging">>}
MemoryKeys == {<<"MEMORY", m>> : m \in {"total_memory", "used_memory", "total_swap", "used_swap"}}
DiskGauges(g) == [k \in DOMAIN g \cap DiskKeys |-> g[k]]

\* a turn of the loop in which the job was due
SamplingRun == scheduler.alive /\ Due /\ scheduler' # scheduler

\* C26: a sampling run never stops the loop, so that a later run always
\* occurs; a run that finds no disk whose mount point is a prefix of the
\* staging directory leaves the disk gauges as they were and still sets the
\* memory gauges; with several such disks the one with the longest mount point
\* is the one sampled
C26_SamplingNeverStops ==
    /\ [][SamplingRun =>
            /\ scheduler'.alive
            /\ Matching(scheduler'.disks) = {} =>
                  /\ DiskGauges(gauges') = DiskGauges(gauges)
                  /\ MemoryKeys \subseteq DOMAIN gauges'
            /\ Matching(scheduler'.disks) # {} =>
                  \E d \in LongestMatches(scheduler'.disks) :
                      /\ <<"TOTAL_DISK", "staging">> \in DOMAIN gauges'
                      /\ gauges'[<<"TOTAL_DISK", "staging">>] = d.total_space]_vars
    /\ []<><<RunPending>>_vars

\* C27: after a sampling run that found the staging volume the three staging
\* gauges hold the disk's total space, its total less its available space, and
\* its available space
C27_StagingGaugesNamed ==
    (scheduler.runs /\ scheduler.alive /\ Matching(scheduler.disks) # {}) =>
        /\ DiskKeys \subseteq DOMAIN gauges
        /\ \E d \in LongestMatches(scheduler.disks) :
              /\ gauges[<<"TOTAL_DISK", "staging">>] = d.total_space
              /\ gauges[<<"USED_DISK", "staging">>] = d.total_space - d.available_space
              /\ gauges[<<"AVAILABLE_DISK", "staging">>] = d.available_space

====
